---- MODULE Spec2Model ----
(***************************************************************************)
(* Playback session (AudioProvider), progress reconciler (saveProgress)    *)
(* and the persistent store accessors of the audiobook player.             *)
(*                                                                         *)
(* Every async function is a task: its position (pc) is the await it is    *)
(* suspended at, and one step runs the code from one await to the next.    *)
(* A store statement takes effect when it is issued (the store executes    *)
(* statements in issue order); the task resumes in a later step.           *)
(* stateRef.current is the mirror of the React state (part_004:70-73);     *)
(* the model reads the state itself.                                       *)
(***************************************************************************)
EXTENDS Integers, Sequences, FiniteSets, TLC

\* ------------------------------------------------------------------ bounds
MaxTasks == 2        \* async calls in flight at once
MaxUnits == 3        \* audio units created in one run
MaxTime  == 30000    \* the wall clock stops here (ms)
MaxSeek  == 3        \* largest seek target tried
MaxCalls == 4        \* calls the screens make into the session in one run
MaxOverlap == 3      \* of these, the calls made while they may overlap

\* --------------------------------------------------------------- constants
NoBook  == 0         \* book: null
NoUnit  == 0         \* soundRef.current === null
NoHist  == 0         \* bookHistoryRef.current === null
NoTime  == -1        \* lastProgressTimestampRef.current === null / completed_at NULL
ClampMs == 10000     \* Math.min(elapsed, 10000)
TickMs  == 5000      \* setInterval(saveProgress, 5000)
DayMs   == 24 * 60 * 60 * 1000  \* one day of toISOString().split("T")[0]

\* ----------------------------------------------------------- library data
\* The imported library: book 1 has two chapters, book 2 has one.
ChapterCount == <<2, 1>>
BookIds == DOMAIN ChapterCount

\* an id with no books row
MissingBook == Len(ChapterCount) + 1

\* The chapter ids insertChapter gives the files of book b, in file order
ChaptersOf(b) == [i \in 1..ChapterCount[b] |-> 10 * b + i]

AllChapterIds == UNION {{ChaptersOf(b)[i] : i \in 1..ChapterCount[b]} : b \in BookIds}

\* True playable length of a chapter's file, as the audio unit reports it.
Duration(c) == IF c = 11 THEN 1 ELSE 2

Min(a, b) == IF a < b THEN a ELSE b
Max(a, b) == IF a > b THEN a ELSE b

\* chapters[i] with the code's 0-based index; HasIndex is "chapters[i] is defined"
HasIndex(chs, i) == i >= 0 /\ i < Len(chs)
At(chs, i) == chs[i + 1]

\* chapters.findIndex(c => c.id === id), -1 when absent
FindIndex(chs, id) ==
  IF \E i \in 1..Len(chs) : chs[i] = id
  THEN (CHOOSE i \in 1..Len(chs) : chs[i] = id /\ \A j \in 1..(i - 1) : chs[j] # id) - 1
  ELSE -1

RECURSIVE SumOver(_, _)
SumOver(f, S) ==
  IF S = {} THEN 0
  ELSE LET k == CHOOSE x \in S : TRUE IN f[k] + SumOver(f, S \ {k})

\* chapterDurationsRef.current.forEach(d => totalDuration += d)
TotalDuration(map) == SumOver(map, DOMAIN map)

EmptyMap == [c \in {} |-> 0]

\* getProgress found no row
NoRow == [current_chapter_id |-> 0, position_ms |-> 0]

VARIABLES
  \* persistent store
  books,               \* id -> [total_duration_ms]
  chapters,            \* id -> [book_id, position]
  progress,            \* book_id -> [current_chapter_id, position_ms]
  book_history,        \* sequence of rows, id = index
  listening_sessions,  \* rows [book_history_id, session_date, duration_ms]
  \* AudioProvider
  state,               \* the React state (AudioState)
  soundRef,
  chapterDurationsRef,
  isTransitioningRef,
  bookHistoryRef,
  accumulatedListeningMsRef,
  lastProgressTimestampRef,
  \* environment
  units,               \* live audio units: id -> [ch, pos, playing, finished]
  nextUnit,            \* id of the next unit createAsync makes
  tasks,               \* async calls in flight
  calls,               \* calls made by the screens so far
  now,                 \* wall clock, ms
  period,              \* time between two firings of the save timer in this run
  dbFails,             \* whether store writes may reject in this run
  loadFails,           \* whether createAsync may reject in this run
  \* history of the run
  lastWrites,          \* store write statements executed by the last step
  listened,            \* total ms added to the accumulator so far
  unplayed             \* time has passed without the session's unit playing
                       \* since saveProgress last took its timestamp

storeVars == <<books, chapters, progress, book_history, listening_sessions>>
refVars   == <<soundRef, chapterDurationsRef, isTransitioningRef, bookHistoryRef,
               accumulatedListeningMsRef, lastProgressTimestampRef>>
envVars   == <<units, nextUnit, now, period, dbFails, loadFails>>
UserCall  == calls < MaxCalls /\ calls' = calls + 1
Overlap == calls < MaxOverlap
vars == <<books, chapters, progress, book_history, listening_sessions, state, soundRef,
          chapterDurationsRef, isTransitioningRef, bookHistoryRef,
          accumulatedListeningMsRef, lastProgressTimestampRef, units, nextUnit,
          tasks, calls, now, period, dbFails, loadFails, lastWrites, listened, unplayed>>

initialState ==
  [book |-> NoBook, chapters |-> <<>>, currentChapterIndex |-> 0,
   isPlaying |-> FALSE, isLoading |-> FALSE, positionMs |-> 0,
   durationMs |-> 0, playbackSpeed |-> 10, error |-> "none"]

\* ------------------------------------------------------------------ store
Today == now \div DayMs

\* A book_history row as INSERT INTO book_history makes it.
HistoryRow(b, total) ==
  [book_id |-> b, total_duration_ms |-> total, started_at |-> 0,
   completed_at |-> NoTime, is_in_library |-> 1]

\* INSERT INTO progress ... ON CONFLICT(book_id) DO UPDATE
\* (the foreign key rejects a book_id with no books row)
updateProgress(prog, b, c, p) ==
  IF b \in DOMAIN books /\ c \in DOMAIN chapters
  THEN [x \in DOMAIN prog \cup {b} |->
          IF x = b THEN [current_chapter_id |-> c, position_ms |-> p] ELSE prog[x]]
  ELSE prog

\* The chapters rows insertChapter makes for book b: position is the file order
ChapterRows(b) ==
  [c \in {ChaptersOf(b)[i] : i \in 1..ChapterCount[b]} |->
     [book_id |-> b, position |-> FindIndex(ChaptersOf(b), c), duration_ms |-> 0]]

\* The chapters table of a library holding the books S
ChapterTable(S) ==
  [c \in UNION {DOMAIN ChapterRows(b) : b \in S} |->
     ChapterRows(CHOOSE b \in S : c \in DOMAIN ChapterRows(b))[c]]

\* SELECT * FROM chapters WHERE book_id = ? ORDER BY position  (ids only)
getChaptersByBookId(ch, b) ==
  LET ids == {c \in DOMAIN ch : ch[c].book_id = b} IN
  [i \in 1..Cardinality(ids) |->
     CHOOSE c \in ids : Cardinality({d \in ids : ch[d].position < ch[c].position}) = i - 1]

\* getProgressWithCumulativePosition(bookId).cumulative_position_ms for a
\* book with a Progress row: the stored durations of the chapters before the
\* current one, plus position_ms (position_ms alone for an unknown chapter)
getProgressWithCumulativePosition(prog, ch, b) ==
  LET row == prog[b] IN
  IF row.current_chapter_id \notin DOMAIN ch
  THEN row.position_ms
  ELSE LET before == {c \in DOMAIN ch :
                        /\ ch[c].book_id = b
                        /\ ch[c].position < ch[row.current_chapter_id].position}
       IN SumOver([c \in before |-> ch[c].duration_ms], before) + row.position_ms

\* chapters.book_id REFERENCES books(id) ON DELETE CASCADE
CascadeChapters(ch, b) ==
  [c \in {x \in DOMAIN ch : ch[x].book_id # b} |-> ch[c]]

\* (mutant of CascadeProgress: the foreign key does not cascade)
CascadeProgress_None(prog, b) == prog

\* progress.book_id REFERENCES books(id) ON DELETE CASCADE (book_id is the
\* primary key of progress)
CascadeProgress(prog, b) ==
  [x \in DOMAIN prog \ {b} |-> prog[x]]

\* UPDATE books SET total_duration_ms = ? WHERE id = ?
updateBookDuration(bks, b, total) ==
  [x \in DOMAIN bks |-> IF x = b THEN [bks[x] EXCEPT !.total_duration_ms = total] ELSE bks[x]]

\* UPDATE book_history SET total_duration_ms = ? WHERE id = ?
updateBookHistoryDuration(h, id, total) ==
  [i \in DOMAIN h |-> IF i = id THEN [h[i] EXCEPT !.total_duration_ms = total] ELSE h[i]]

markBookHistoryCompleted_Unconditional(h, id, ts) ==
  [i \in DOMAIN h |-> IF i = id THEN [h[i] EXCEPT !.completed_at = ts] ELSE h[i]]

\* UPDATE book_history SET completed_at = CURRENT_TIMESTAMP
\*   WHERE id = ? AND completed_at IS NULL
markBookHistoryCompleted(h, id, ts) ==
  [i \in DOMAIN h |->
     IF i = id /\ h[i].completed_at = NoTime
     THEN [h[i] EXCEPT !.completed_at = ts] ELSE h[i]]

\* INSERT INTO listening_sessions ... ON CONFLICT(book_history_id, session_date)
\*   DO UPDATE SET duration_ms = duration_ms + excluded.duration_ms
\* (mutant of upsertListeningSession: a plain INSERT)
upsertListeningSession_InsertOnly(ls, id, ms, day) ==
  Append(ls, [book_history_id |-> id, session_date |-> day, duration_ms |-> ms])

upsertListeningSession(ls, id, ms, day) ==
  LET conflict(i) == ls[i].book_history_id = id /\ ls[i].session_date = day IN
  IF \E i \in DOMAIN ls : conflict(i)
  THEN [i \in DOMAIN ls |->
          IF conflict(i) THEN [ls[i] EXCEPT !.duration_ms = @ + ms] ELSE ls[i]]
  ELSE Append(ls, [book_history_id |-> id, session_date |-> day, duration_ms |-> ms])

\* SELECT * FROM book_history WHERE book_id = ?  (first row's id, NoHist if none)
getBookHistoryByBookId(h, b) ==
  IF \E i \in DOMAIN h : h[i].book_id = b
  THEN CHOOSE i \in DOMAIN h : h[i].book_id = b /\ \A j \in 1..(i - 1) : h[j].book_id # b
  ELSE NoHist

\* SELECT COALESCE(SUM(duration_ms), 0) FROM listening_sessions
getTotalListeningTime ==
  SumOver([i \in DOMAIN listening_sessions |-> listening_sessions[i].duration_ms],
          DOMAIN listening_sessions)

\* (mutant of getTotalListeningTimeForBook: only books still in the library)
getTotalListeningTimeForBook_InLibrary(bookHistoryId) ==
  IF book_history[bookHistoryId].book_id \in DOMAIN books
  THEN SumOver([i \in DOMAIN listening_sessions |-> listening_sessions[i].duration_ms],
               {i \in DOMAIN listening_sessions :
                  listening_sessions[i].book_history_id = bookHistoryId})
  ELSE 0

\* SELECT COALESCE(SUM(duration_ms), 0) FROM listening_sessions
\*   WHERE book_history_id = ?
getTotalListeningTimeForBook(bookHistoryId) ==
  SumOver([i \in DOMAIN listening_sessions |-> listening_sessions[i].duration_ms],
          {i \in DOMAIN listening_sessions :
             listening_sessions[i].book_history_id = bookHistoryId})

\* Outcomes of one store write: it succeeds, or (in a failing store) rejects.
WriteOutcomes == IF dbFails THEN {TRUE, FALSE} ELSE {TRUE}

\* ------------------------------------------------------------------ tasks
FreeTid == CHOOSE i \in 1..MaxTasks : \A t \in tasks : t.tid # i
HasRoom == Cardinality(tasks) < MaxTasks
Replace(t, t2) == (tasks \ {t}) \cup {t2}


W(tbl, key, val) == [tbl |-> tbl, key |-> key, val |-> val]

\* ------------------------------------------------------------------- Init
Init ==
  /\ books = [b \in BookIds |-> [total_duration_ms |-> 0, folder_path |-> b]]
  /\ chapters = ChapterTable(BookIds)
  /\ progress = [b \in {} |-> 0]
  \* book 1 was imported in an earlier run and backfilled by
  \* initializeDatabase; book 2 was imported in this run
  /\ book_history = <<HistoryRow(1, 0)>>
  /\ listening_sessions = <<>>
  /\ state = initialState
  /\ soundRef = NoUnit
  /\ chapterDurationsRef = EmptyMap
  /\ isTransitioningRef = FALSE
  /\ bookHistoryRef = NoHist
  /\ accumulatedListeningMsRef = 0
  /\ lastProgressTimestampRef = NoTime
  /\ units = [u \in {} |-> 0]
  /\ nextUnit = 1
  /\ tasks = {}
  /\ calls = 0
  /\ now = 0
  /\ period = TickMs
  /\ dbFails = FALSE
  /\ loadFails = FALSE
  /\ lastWrites = {}
  /\ listened = 0
  /\ unplayed = FALSE

\* ------------------------------------------------------------ environment
\* The unit the session holds is loaded and playing
Playing == soundRef \in DOMAIN units /\ units[soundRef].playing

\* The wall clock moves on by dt.
ClockAdvance(dt) ==
  /\ UNCHANGED calls
  /\ now + dt <= MaxTime
  /\ now' = now + dt
  /\ unplayed' = (unplayed \/ ~Playing)
  /\ lastWrites' = {}
  /\ UNCHANGED <<storeVars, state, refVars, units, nextUnit, tasks, period, dbFails, loadFails, listened>>

\* A playing unit moves on by one position; at the end of the file it stops
\* and has just finished.
UnitAdvance(u) ==
  /\ UNCHANGED calls
  /\ u \in DOMAIN units
  /\ units[u].playing
  /\ LET d == Duration(units[u].ch)
         p == Min(units[u].pos + 1, d)
     IN units' = [units EXCEPT ![u] =
                    [@ EXCEPT !.pos = p, !.playing = p < d, !.finished = p >= d]]
  /\ lastWrites' = {}
  /\ UNCHANGED <<storeVars, state, refVars, nextUnit, tasks, now, period, dbFails, loadFails, listened, unplayed>>

\* ---------------------------------------------- onPlaybackStatusUpdate
NeedsRecord_Always(map, chapterId) == TRUE

\* !chapterDurationsRef.current.has(chapterId)
NeedsRecord(map, chapterId) == chapterId \notin DOMAIN map

DiscoveryComplete_Partial(map, chs) == Cardinality(DOMAIN map) >= 1

\* chapterDurationsRef.current.size === currentState.chapters.length
DiscoveryComplete(map, chs) == Cardinality(DOMAIN map) = Len(chs)

\* A loaded unit delivers a status: its position, its duration (0 while not
\* yet known), its playing flag and didJustFinish (isLooping is never set).
StatusUpdate(u, dur, fin) ==
  /\ UNCHANGED calls
  /\ u \in DOMAIN units
  /\ dur \in {0, Duration(units[u].ch)}
  /\ fin \in (IF units[u].finished THEN BOOLEAN ELSE {FALSE})
  /\ IF isTransitioningRef
     THEN /\ lastWrites' = {}
          /\ UNCHANGED <<storeVars, state, refVars, envVars, tasks, listened, unplayed>>
     ELSE
       LET cur == state
           hasCh == HasIndex(cur.chapters, cur.currentChapterIndex)
           chapterId == At(cur.chapters, cur.currentChapterIndex)
           record == dur > 0 /\ hasCh /\ NeedsRecord(chapterDurationsRef, chapterId)
           map1 == IF record
                   THEN [c \in DOMAIN chapterDurationsRef \cup {chapterId} |->
                           IF c = chapterId THEN dur ELSE chapterDurationsRef[c]]
                   ELSE chapterDurationsRef
           complete == record /\ cur.book # NoBook /\ DiscoveryComplete(map1, cur.chapters)
           total == TotalDuration(map1)
           advance == fin /\ cur.currentChapterIndex < Len(cur.chapters) - 1
           markDone == fin /\ ~advance /\ bookHistoryRef # NoHist
       IN
       /\ advance => HasRoom
       /\ state' = [state EXCEPT !.positionMs = units[u].pos,
                                 !.durationMs = dur,
                                 !.isPlaying = units[u].playing]
       /\ chapterDurationsRef' = map1
       /\ \E okB \in WriteOutcomes, okH \in WriteOutcomes, okC \in WriteOutcomes :
            LET wB == complete /\ okB
                wH == complete /\ bookHistoryRef # NoHist /\ okH
                wC == markDone /\ okC
                h1 == IF wH THEN updateBookHistoryDuration(book_history, bookHistoryRef, total)
                      ELSE book_history
                h2 == IF wC THEN markBookHistoryCompleted(h1, bookHistoryRef, now) ELSE h1
            IN
            /\ books' = IF wB THEN updateBookDuration(books, cur.book, total) ELSE books
            /\ book_history' = h2
            /\ lastWrites' =
                 (IF wB THEN {W("books", <<cur.book>>, <<total>>)} ELSE {}) \cup
                 (IF wH THEN {W("book_history.total", <<bookHistoryRef>>, <<total>>)} ELSE {}) \cup
                 (IF wC THEN {W("book_history.completed", <<bookHistoryRef>>, <<now>>)} ELSE {})
       \* setTimeout(() => goToChapter(currentChapterIndex + 1, 0), 0)
       /\ tasks' = IF advance
                   THEN tasks \cup {[tid |-> FreeTid, op |-> "goToChapter", pc |-> "timer",
                                     chapterIndex |-> cur.currentChapterIndex + 1,
                                     startPosition |-> 0]}
                   ELSE tasks
       /\ UNCHANGED <<chapters, progress, listening_sessions, soundRef, isTransitioningRef,
                      bookHistoryRef, accumulatedListeningMsRef,
                      lastProgressTimestampRef, envVars, listened, unplayed>>

\* A unit reports that it is no longer loaded and why (status.isLoaded false,
\* status.error set); the handler looks at this before it looks at the guard.
StatusError(u) ==
  /\ UNCHANGED calls
  /\ u \in DOMAIN units
  /\ units' = [x \in DOMAIN units \ {u} |-> units[x]]
  /\ state' = [state EXCEPT !.error = "playback_error"]
  /\ lastWrites' = {}
  /\ UNCHANGED <<storeVars, refVars, nextUnit, tasks, now, period, dbFails,
                 loadFails, listened, unplayed>>

\* ------------------------------------------------------------ play, pause
\* sound.playAsync() / sound.pauseAsync() on the current unit
play ==
  /\ UserCall
  /\ units' = IF soundRef \in DOMAIN units
              THEN [units EXCEPT ![soundRef].playing = TRUE] ELSE units
  /\ lastWrites' = {}
  /\ UNCHANGED <<storeVars, state, refVars, nextUnit, tasks, now, period, dbFails, loadFails, listened, unplayed>>

pause ==
  /\ UserCall
  /\ units' = IF soundRef \in DOMAIN units
              THEN [units EXCEPT ![soundRef].playing = FALSE] ELSE units
  /\ lastWrites' = {}
  /\ UNCHANGED <<storeVars, state, refVars, nextUnit, tasks, now, period, dbFails, loadFails, listened, unplayed>>

\* --------------------------------------------------------- togglePlayback
\* (mutant of ToggleReads: the mirrored flag of the session state decides)
ToggleReads_Mirror(st, u) == st.isPlaying

\* const status = await sound.getStatusAsync(); status.isPlaying
ToggleReads(st, u) == units[u].playing

\* togglePlayback up to its await of getStatusAsync
togglePlaybackCall ==
  /\ UserCall
  /\ HasRoom
  /\ tasks' = IF soundRef = NoUnit
              THEN tasks
              ELSE tasks \cup {[tid |-> FreeTid, op |-> "togglePlayback",
                                pc |-> "tp_status", snd |-> soundRef]}
  /\ lastWrites' = {}
  /\ UNCHANGED <<storeVars, state, refVars, envVars, listened, unplayed>>

\* togglePlayback resumes with the status: a loaded unit is paused if it
\* plays and played if it does not; a unit unloaded meanwhile is left alone
togglePlaybackQueried(t) ==
  /\ UNCHANGED calls
  /\ t \in tasks
  /\ t.pc = "tp_status"
  /\ units' = IF t.snd \in DOMAIN units
              THEN [units EXCEPT ![t.snd].playing = ~ToggleReads(state, t.snd)]
              ELSE units
  /\ tasks' = tasks \ {t}
  /\ lastWrites' = {}
  /\ UNCHANGED <<storeVars, state, refVars, nextUnit, now, period, dbFails,
                 loadFails, listened, unplayed>>

\* -------------------------------------------------------- setPlaybackSpeed
\* The speeds the slider of the player screen offers, in tenths (0.5x, 1x, 2x)
Rates == {5, 10, 20}

\* sound.setRateAsync(speed, true) resolves, or the unit rejects the rate
RateOutcomes == BOOLEAN

\* setPlaybackSpeed(speed): the visible speed is set first; with a unit loaded
\* the rate is then applied to it, and a rejection is logged.
setPlaybackSpeed(speed) ==
  /\ UserCall
  /\ state' = [state EXCEPT !.playbackSpeed = speed]
  /\ IF soundRef \in DOMAIN units
     THEN \E ok \in RateOutcomes :
            units' = IF ok THEN [units EXCEPT ![soundRef].rate = speed] ELSE units
     ELSE UNCHANGED units
  /\ lastWrites' = {}
  /\ UNCHANGED <<storeVars, refVars, nextUnit, tasks, now, period, dbFails, loadFails, listened, unplayed>>

\* ------------------------------------------------ saveProgress (the tick)
Clamp_None(elapsed) == elapsed

\* Math.min(elapsed, 10000)
Clamp(elapsed) == Min(elapsed, ClampMs)

NextTimestamp_KeepFirst(isPlaying, t, old) ==
  IF isPlaying THEN (IF old = NoTime THEN t ELSE old) ELSE NoTime

\* lastProgressTimestampRef.current = isPlaying ? now : null
NextTimestamp(isPlaying, t, old) == IF isPlaying THEN t ELSE NoTime

FlushReset_Keep(acc) == acc

\* accumulatedListeningMsRef.current = 0, in the same turn as the capture of toFlush
FlushReset(acc) == 0

\* The timer calls saveProgress at wall-clock time t: the code up to its
\* first await.
saveProgressAt(t) ==
  /\ HasRoom
  /\ IF \/ isTransitioningRef
        \/ state.book = NoBook
        \/ Len(state.chapters) = 0
        \/ state.positionMs = 0
     THEN /\ lastWrites' = {}
          /\ unplayed' = (unplayed \/ (t > now /\ ~Playing))
          /\ UNCHANGED <<storeVars, state, refVars, units, nextUnit, period, dbFails, loadFails, tasks, listened>>
     ELSE
       LET elapsed == t - lastProgressTimestampRef
           counts  == state.isPlaying /\ lastProgressTimestampRef # NoTime
           add     == IF counts THEN Clamp(elapsed) ELSE 0
           acc1    == accumulatedListeningMsRef + add
           flush   == acc1 > 0 /\ bookHistoryRef # NoHist
           hasCh   == HasIndex(state.chapters, state.currentChapterIndex)
           chapterId == IF hasCh THEN At(state.chapters, state.currentChapterIndex) ELSE 0
           save    == hasCh /\ (state.isPlaying \/ state.positionMs > 0)
       IN
       /\ lastProgressTimestampRef' =
            NextTimestamp(state.isPlaying, t, lastProgressTimestampRef)
       /\ listened' = listened + add
       /\ unplayed' = FALSE
       /\ IF flush
          THEN \E ok \in WriteOutcomes :
                 /\ accumulatedListeningMsRef' = FlushReset(acc1)
                 /\ listening_sessions' =
                      IF ok THEN upsertListeningSession(listening_sessions, bookHistoryRef,
                                                        acc1, t \div DayMs)
                      ELSE listening_sessions
                 /\ lastWrites' = IF ok THEN {W("listening_sessions",
                                                <<bookHistoryRef, t \div DayMs>>, <<acc1>>)}
                                  ELSE {}
                 /\ tasks' = tasks \cup {[tid |-> FreeTid, op |-> "saveProgress",
                                          pc |-> "upsert", book |-> state.book,
                                          chapterId |-> chapterId, save |-> save,
                                          positionMs |-> state.positionMs,
                                          toFlush |-> acc1,
                                          \* (history) the stored row as this call began
                                          rowAtStart |-> IF state.book \in DOMAIN progress
                                                         THEN progress[state.book]
                                                         ELSE NoRow]}
                 /\ UNCHANGED progress
          ELSE /\ accumulatedListeningMsRef' = acc1
               /\ UNCHANGED <<listening_sessions, tasks>>
               /\ IF save
                  THEN \E ok \in WriteOutcomes :
                         /\ progress' = IF ok THEN updateProgress(progress, state.book,
                                                                 chapterId, state.positionMs)
                                        ELSE progress
                         /\ lastWrites' = IF ok THEN {W("progress", <<state.book>>,
                                                        <<chapterId, state.positionMs>>)}
                                          ELSE {}
                  ELSE /\ UNCHANGED progress
                       /\ lastWrites' = {}
       /\ UNCHANGED <<chapters, books, book_history, state, soundRef, chapterDurationsRef,
                      isTransitioningRef, bookHistoryRef, units, nextUnit, period, dbFails, loadFails>>

\* setInterval fires at the current time
saveProgressCall ==
  /\ UNCHANGED calls
  /\ saveProgressAt(now)
  /\ UNCHANGED now

\* setInterval fires one period after its previous firing
saveProgressPeriodic ==
  /\ UNCHANGED calls
  /\ now + period <= MaxTime
  /\ saveProgressAt(now + period)
  /\ now' = now + period

\* saveProgress resumes after upsertListeningSession: the Progress write
saveProgressResume(t) ==
  /\ UNCHANGED calls
  /\ t \in tasks
  /\ t.op = "saveProgress"
  /\ t.pc = "upsert"
  /\ tasks' = tasks \ {t}
  /\ IF t.save
     THEN \E ok \in WriteOutcomes :
            /\ progress' = IF ok THEN updateProgress(progress, t.book, t.chapterId, t.positionMs)
                           ELSE progress
            /\ lastWrites' = IF ok THEN {W("progress", <<t.book>>, <<t.chapterId, t.positionMs>>)}
                             ELSE {}
     ELSE /\ UNCHANGED progress
          /\ lastWrites' = {}
  /\ UNCHANGED <<chapters, books, book_history, listening_sessions, state, refVars, envVars, listened, unplayed>>

\* -------------------------------------------------------- loadChapterAudio
RemoveUnit(us, u) == [x \in DOMAIN us \ {u} |-> us[x]]

LoadOutcomes == IF loadFails THEN {TRUE, FALSE} ELSE {TRUE}

\* (mutant of SetLoading: the error of an earlier attempt is kept)
SetLoading_KeepError(st) == [st EXCEPT !.isLoading = TRUE]

\* setState(prev => ({ ...prev, isLoading: true, error: null }))
SetLoading(st) == [st EXCEPT !.isLoading = TRUE, !.error = "none"]

\* loadChapterAudio up to its first await, entered with session state st:
\* with a unit in soundRef it awaits unloadAsync, otherwise it sets the
\* loading flag and awaits createAsync.
LCAStartTask(t) ==
  IF soundRef # NoUnit
  THEN [t EXCEPT !.pc = "lca_unload", !.unl = soundRef]
  ELSE [t EXCEPT !.pc = "lca_create"]

LCAStartState(st) == IF soundRef # NoUnit THEN st ELSE SetLoading(st)

\* loadChapterAudio resumes after unloadAsync
loadChapterAudioUnloaded(t) ==
  /\ UNCHANGED calls
  /\ t \in tasks
  /\ t.pc = "lca_unload"
  /\ units' = RemoveUnit(units, t.unl)
  /\ soundRef' = NoUnit
  /\ state' = SetLoading(state)
  /\ tasks' = Replace(t, [t EXCEPT !.pc = "lca_create"])
  /\ lastWrites' = {}
  /\ UNCHANGED <<storeVars, chapterDurationsRef, isTransitioningRef, bookHistoryRef,
                 accumulatedListeningMsRef, lastProgressTimestampRef, nextUnit, now,
                 period, dbFails, loadFails, listened, unplayed>>

\* The unit Audio.Sound.createAsync makes for chapter ch
NewUnit(ch, initialPosition, speed, shouldPlay) ==
  [ch |-> ch, pos |-> Max(0, Min(initialPosition, Duration(ch))),
   playing |-> shouldPlay, finished |-> FALSE, rate |-> speed]

\* (mutant of InitialSave: no initial progress for a unit that failed to load)
InitialSave_IfLoaded(okLoad) == okLoad

\* loadChapterAudio catches what createAsync throws, so loadBook goes on to
\* updateProgress either way
InitialSave(okLoad) == TRUE

\* loadChapterAudio resumes after createAsync (resolved or rejected) and
\* returns to its caller; loadBook then saves the initial progress.
loadChapterAudioCreated(t) ==
  /\ UNCHANGED calls
  /\ t \in tasks
  /\ t.pc = "lca_create"
  /\ nextUnit <= MaxUnits
  /\ tasks' = tasks \ {t}
  /\ \E okLoad \in LoadOutcomes :
       /\ IF okLoad
          THEN /\ units' = [u \in DOMAIN units \cup {nextUnit} |->
                              IF u = nextUnit
                              THEN NewUnit(t.chapter, t.initialPosition, t.speed, t.shouldAutoPlay)
                              ELSE units[u]]
               /\ soundRef' = nextUnit
               /\ nextUnit' = nextUnit + 1
               /\ state' = [state EXCEPT !.isLoading = FALSE]
          ELSE /\ state' = [state EXCEPT !.isLoading = FALSE, !.error = "load_failed"]
               /\ UNCHANGED <<units, soundRef, nextUnit>>
       /\ IF t.op = "loadBook" /\ InitialSave(okLoad)
          THEN \E ok \in WriteOutcomes :
                 /\ progress' = IF ok THEN updateProgress(progress, t.bookId, t.chapter,
                                                         t.initialPosition)
                                ELSE progress
                 /\ lastWrites' = IF ok THEN {W("progress", <<t.bookId>>,
                                                <<t.chapter, t.initialPosition>>)}
                                  ELSE {}
          ELSE /\ UNCHANGED progress
               /\ lastWrites' = {}
  /\ UNCHANGED <<chapters, books, book_history, listening_sessions, chapterDurationsRef,
                 isTransitioningRef, bookHistoryRef, accumulatedListeningMsRef,
                 lastProgressTimestampRef, now, period, dbFails, loadFails, listened, unplayed>>

\* ------------------------------------------------------------- goToChapter
\* (mutant of AutoPlayIntent: every chapter change starts playing)
AutoPlayIntent_Always(st) == TRUE

\* const { isPlaying } = stateRef.current, handed on as shouldAutoPlay
AutoPlayIntent(st) == st.isPlaying

\* goToChapter(chapterIndex, startPosition) up to its first await, run by
\* task record t (a fresh record for a direct call, the timer's for auto-advance)
goToChapterBody(t, rest) ==
  /\ IF ~HasIndex(state.chapters, t.chapterIndex)
     THEN /\ tasks' = rest
          /\ UNCHANGED state
     ELSE LET st1 == [state EXCEPT !.currentChapterIndex = t.chapterIndex,
                                   !.positionMs = t.startPosition]
              t1  == [t EXCEPT !.chapter = At(state.chapters, t.chapterIndex),
                               !.initialPosition = t.startPosition,
                               !.speed = state.playbackSpeed,
                               !.shouldAutoPlay = AutoPlayIntent(state)]
          IN /\ state' = LCAStartState(st1)
             /\ tasks' = rest \cup {LCAStartTask(t1)}
  /\ lastWrites' = {}
  /\ UNCHANGED <<storeVars, refVars, envVars, listened, unplayed>>

GoToChapterTask(id, i, p) ==
  [tid |-> id, op |-> "goToChapter", pc |-> "call", chapterIndex |-> i,
   startPosition |-> p, chapter |-> 0, initialPosition |-> 0,
   speed |-> 0, shouldAutoPlay |-> FALSE, unl |-> NoUnit]

goToChapterCall(i, p) ==
  /\ UserCall
  /\ HasRoom
  /\ goToChapterBody(GoToChapterTask(FreeTid, i, p), tasks)

\* the setTimeout callback of the finish handler runs
goToChapterTimer(t) ==
  /\ UNCHANGED calls
  /\ t \in tasks
  /\ t.pc = "timer"
  /\ goToChapterBody(GoToChapterTask(t.tid, t.chapterIndex, t.startPosition),
                     tasks \ {t})

nextChapter ==
  /\ UserCall
  /\ HasRoom
  /\ IF state.currentChapterIndex < Len(state.chapters) - 1
     THEN goToChapterBody(GoToChapterTask(FreeTid, state.currentChapterIndex + 1, 0), tasks)
     ELSE /\ lastWrites' = {}
          /\ UNCHANGED <<storeVars, state, refVars, envVars, tasks, listened, unplayed>>

previousChapter ==
  /\ UserCall
  /\ HasRoom
  /\ IF state.currentChapterIndex > 0
     THEN goToChapterBody(GoToChapterTask(FreeTid, state.currentChapterIndex - 1, 0), tasks)
     ELSE /\ lastWrites' = {}
          /\ UNCHANGED <<storeVars, state, refVars, envVars, tasks, listened, unplayed>>

\* ---------------------------------------------------------------- loadBook
\* (mutant of ResolveResume: the stored offset is applied to chapter 0)
ResolveResume_KeepOffset(hasProgress, row, chs) ==
  LET foundIndex == FindIndex(chs, row.current_chapter_id) IN
  [chapterIndex |-> Max(0, foundIndex), initialPosition |-> row.position_ms]

\* The saved resume point, or chapter 0 / offset 0
ResolveResume(hasProgress, row, chs) ==
  LET foundIndex == FindIndex(chs, row.current_chapter_id) IN
  IF hasProgress /\ Len(chs) > 0 /\ foundIndex >= 0
  THEN [chapterIndex |-> foundIndex, initialPosition |-> row.position_ms]
  ELSE [chapterIndex |-> 0, initialPosition |-> 0]

\* prevBook && prevChapters.length > 0 && prevPosition > 0 && prevChapter
\* (the same test guards the final save of stopAndUnload)
NeedsFlush(st) ==
  /\ st.book # NoBook
  /\ Len(st.chapters) > 0
  /\ st.positionMs > 0
  /\ HasIndex(st.chapters, st.currentChapterIndex)

LoadBookTask(b) ==
  [tid |-> FreeTid, op |-> "loadBook", pc |-> "call", bookId |-> b,
   prevBook |-> state.book,
   prevChapterId |-> IF HasIndex(state.chapters, state.currentChapterIndex)
                     THEN At(state.chapters, state.currentChapterIndex) ELSE 0,
   prevPosition |-> state.positionMs,
   unl |-> NoUnit, found |-> FALSE, hasProgress |-> FALSE, row |-> NoRow,
   chapters |-> <<>>, chapterIndex |-> 0, hist |-> NoHist,
   chapter |-> 0, initialPosition |-> 0, speed |-> 0, shouldAutoPlay |-> FALSE]

\* A store read loadBook awaits outside any try block resolves, or rejects
\* and ends the call there (the rejection goes to the caller)
ReadOutcomes == IF dbFails THEN {TRUE, FALSE} ELSE {TRUE}

\* loadBook after the unload of the previous unit: set the loading flag and
\* issue getBookWithChapters
LBFetchTask(t) ==
  [t EXCEPT !.pc = "lb_getBook",
            !.found = t.bookId \in DOMAIN books,
            !.chapters = IF t.bookId \in DOMAIN books
                         THEN getChaptersByBookId(chapters, t.bookId) ELSE <<>>]

\* loadBook after the save of the previous book: await the unload of the
\* previous unit when there is one
LBUnloadTask(t) ==
  IF soundRef # NoUnit
  THEN [t EXCEPT !.pc = "lb_unload", !.unl = soundRef]
  ELSE LBFetchTask(t)

LBUnloadState == IF soundRef # NoUnit THEN state ELSE SetLoading(state)

\* (mutant of AlreadyLoaded: every call reloads)
AlreadyLoaded_Never(b) == FALSE

\* loadBook's early return: the book is the session's book and a unit is loaded
AlreadyLoaded(b) == state.book = b /\ soundRef # NoUnit

loadBookCall(b) ==
  /\ UserCall
  /\ HasRoom
  /\ IF AlreadyLoaded(b)
     THEN /\ lastWrites' = {}
          /\ UNCHANGED <<storeVars, state, refVars, envVars, tasks, listened, unplayed>>
     ELSE
       /\ isTransitioningRef' = TRUE
       /\ IF NeedsFlush(state)
          THEN \E ok \in WriteOutcomes :
                 LET c == At(state.chapters, state.currentChapterIndex) IN
                 /\ progress' = IF ok THEN updateProgress(progress, state.book, c,
                                                         state.positionMs)
                                ELSE progress
                 /\ lastWrites' = IF ok THEN {W("progress", <<state.book>>,
                                                <<c, state.positionMs>>)}
                                  ELSE {}
                 /\ tasks' = tasks \cup {[LoadBookTask(b) EXCEPT !.pc = "lb_saved"]}
                 /\ UNCHANGED state
          ELSE /\ tasks' = tasks \cup {LBUnloadTask(LoadBookTask(b))}
               /\ state' = LBUnloadState
               /\ lastWrites' = {}
               /\ UNCHANGED progress
       /\ UNCHANGED <<chapters, books, book_history, listening_sessions, soundRef,
                      chapterDurationsRef, bookHistoryRef, accumulatedListeningMsRef,
                      lastProgressTimestampRef, envVars, listened, unplayed>>

\* loadBook resumes after updateProgress of the previous book
loadBookSaved(t) ==
  /\ UNCHANGED calls
  /\ t \in tasks
  /\ t.pc = "lb_saved"
  /\ tasks' = Replace(t, LBUnloadTask(t))
  /\ state' = LBUnloadState
  /\ lastWrites' = {}
  /\ UNCHANGED <<storeVars, refVars, envVars, listened, unplayed>>

\* loadBook resumes after unloadAsync of the previous unit
loadBookUnloaded(t) ==
  /\ UNCHANGED calls
  /\ t \in tasks
  /\ t.pc = "lb_unload"
  /\ units' = RemoveUnit(units, t.unl)
  /\ soundRef' = NoUnit
  /\ state' = SetLoading(state)
  /\ tasks' = Replace(t, LBFetchTask(t))
  /\ lastWrites' = {}
  /\ UNCHANGED <<storeVars, chapterDurationsRef, isTransitioningRef, bookHistoryRef,
                 accumulatedListeningMsRef, lastProgressTimestampRef, nextUnit, now,
                 period, dbFails, loadFails, listened, unplayed>>

\* loadBook resumes after getBookWithChapters: not found, or issue getProgress
loadBookFetched(t) ==
  /\ UNCHANGED calls
  /\ t \in tasks
  /\ t.pc = "lb_getBook"
  /\ \E okRead \in ReadOutcomes :
       IF ~okRead
       THEN /\ tasks' = tasks \ {t}
            /\ UNCHANGED <<isTransitioningRef, state>>
       ELSE IF ~t.found
       THEN /\ isTransitioningRef' = FALSE
            /\ state' = [state EXCEPT !.isLoading = FALSE, !.error = "not_found"]
            /\ tasks' = tasks \ {t}
       ELSE /\ tasks' = Replace(t, [t EXCEPT !.pc = "lb_getProgress",
                                             !.hasProgress = t.bookId \in DOMAIN progress,
                                             !.row = IF t.bookId \in DOMAIN progress
                                                     THEN progress[t.bookId] ELSE NoRow])
            /\ UNCHANGED <<isTransitioningRef, state>>
  /\ lastWrites' = {}
  /\ UNCHANGED <<storeVars, soundRef, chapterDurationsRef, bookHistoryRef,
                 accumulatedListeningMsRef, lastProgressTimestampRef, envVars, listened, unplayed>>

\* loadBook resumes after getProgress: resolve the resume point, clear the
\* discovery map, and issue the first SELECT of getOrCreateBookHistory
loadBookProgressRead(t) ==
  /\ UNCHANGED calls
  /\ t \in tasks
  /\ t.pc = "lb_getProgress"
  /\ \E okRead \in ReadOutcomes :
       IF ~okRead
       THEN /\ tasks' = tasks \ {t}
            /\ UNCHANGED chapterDurationsRef
       ELSE LET r == ResolveResume(t.hasProgress, t.row, t.chapters) IN
            /\ tasks' = Replace(t, [t EXCEPT !.pc = "lb_histSelect",
                                             !.chapterIndex = r.chapterIndex,
                                             !.initialPosition = r.initialPosition,
                                             !.hist = getBookHistoryByBookId(book_history,
                                                                             t.bookId)])
            /\ chapterDurationsRef' = EmptyMap
  /\ lastWrites' = {}
  /\ UNCHANGED <<storeVars, state, soundRef, isTransitioningRef, bookHistoryRef,
                 accumulatedListeningMsRef, lastProgressTimestampRef, envVars, listened, unplayed>>

\* loadBook once getOrCreateBookHistory has returned h (NoHist when it threw):
\* (mutant of ActivateIndex: the index of the previous book is kept)
ActivateIndex_Keep(st, t) == st.currentChapterIndex

\* setState(prev => ({ ...prev, book, chapters, currentChapterIndex: chapterIndex, ... }))
ActivateIndex(st, t) == t.chapterIndex

\* reset the accumulators, publish the book, release the guard and enter
\* loadChapterAudio (not auto-playing)
LoadBookActivate(t, h) ==
  LET st1 == [state EXCEPT !.book = t.bookId, !.chapters = t.chapters,
                           !.currentChapterIndex = ActivateIndex(state, t),
                           !.positionMs = t.initialPosition,
                           !.isLoading = FALSE]
      t1  == [t EXCEPT !.hist = h,
                       !.chapter = At(t.chapters, t.chapterIndex),
                       !.speed = state.playbackSpeed,
                       !.shouldAutoPlay = FALSE]
  IN
  /\ bookHistoryRef' = h
  /\ accumulatedListeningMsRef' = 0
  /\ lastProgressTimestampRef' = NoTime
  /\ isTransitioningRef' = FALSE
  /\ IF Len(t.chapters) > 0
     THEN /\ state' = LCAStartState(st1)
          /\ tasks' = Replace(t, LCAStartTask(t1))
     ELSE /\ state' = st1
          /\ tasks' = tasks \ {t}
  /\ UNCHANGED <<soundRef, chapterDurationsRef, envVars, listened, unplayed>>

\* getOrCreateBookHistory resumes after SELECT ... FROM book_history
loadBookHistorySelected(t) ==
  /\ UNCHANGED calls
  /\ t \in tasks
  /\ t.pc = "lb_histSelect"
  /\ IF t.hist # NoHist
     THEN LoadBookActivate(t, t.hist)
     ELSE /\ tasks' = Replace(t, [t EXCEPT !.pc = "lb_histBook",
                                           !.found = t.bookId \in DOMAIN books])
          /\ UNCHANGED <<state, refVars, envVars, listened, unplayed>>
  /\ lastWrites' = {}
  /\ UNCHANGED storeVars

\* getOrCreateBookHistory resumes after SELECT ... FROM books: throw, or INSERT
loadBookHistoryBook(t) ==
  /\ UNCHANGED calls
  /\ t \in tasks
  /\ t.pc = "lb_histBook"
  /\ IF ~t.found
     THEN /\ LoadBookActivate(t, NoHist)
          /\ lastWrites' = {}
          /\ UNCHANGED storeVars
     ELSE \E ok \in WriteOutcomes :
            /\ book_history' =
                 IF ok THEN Append(book_history,
                                   HistoryRow(t.bookId, books[t.bookId].total_duration_ms))
                 ELSE book_history
            /\ tasks' = Replace(t, [t EXCEPT !.pc = "lb_histInsert",
                                             !.hist = IF ok THEN Len(book_history) + 1
                                                      ELSE NoHist])
            /\ lastWrites' = IF ok THEN {W("book_history", <<Len(book_history) + 1>>,
                                           <<t.bookId>>)}
                             ELSE {}
            /\ UNCHANGED <<chapters, books, progress, listening_sessions, state, refVars,
                           envVars, listened, unplayed>>

\* getOrCreateBookHistory resumes after the INSERT
loadBookHistoryInserted(t) ==
  /\ UNCHANGED calls
  /\ t \in tasks
  /\ t.pc = "lb_histInsert"
  /\ LoadBookActivate(t, t.hist)
  /\ lastWrites' = {}
  /\ UNCHANGED storeVars

\* ----------------------------------------------------------- stopAndUnload
\* The tail of stopAndUnload: setState(initialState) and the reset of the refs
StopReset ==
  /\ state' = initialState
  /\ chapterDurationsRef' = EmptyMap
  /\ bookHistoryRef' = NoHist
  /\ accumulatedListeningMsRef' = 0
  /\ lastProgressTimestampRef' = NoTime

StopAndUnloadTask ==
  [tid |-> FreeTid, op |-> "stopAndUnload", pc |-> "call", unl |-> NoUnit]

\* stopAndUnload after its final save: await the unload of the unit, or
\* reset at once when there is none
StopUnload(t, rest) ==
  IF soundRef # NoUnit
  THEN /\ tasks' = rest \cup {[t EXCEPT !.pc = "su_unload", !.unl = soundRef]}
       /\ UNCHANGED <<state, refVars>>
  ELSE /\ tasks' = rest
       /\ StopReset
       /\ UNCHANGED <<soundRef, isTransitioningRef>>

stopAndUnloadCall ==
  /\ UserCall
  /\ HasRoom
  /\ IF NeedsFlush(state)
     THEN \E ok \in WriteOutcomes :
            LET c == At(state.chapters, state.currentChapterIndex) IN
            /\ progress' = IF ok THEN updateProgress(progress, state.book, c, state.positionMs)
                           ELSE progress
            /\ lastWrites' = IF ok THEN {W("progress", <<state.book>>, <<c, state.positionMs>>)}
                             ELSE {}
            \* a rejected updateProgress is not caught: the call ends here
            /\ tasks' = IF ok THEN tasks \cup {[StopAndUnloadTask EXCEPT !.pc = "su_saved"]}
                        ELSE tasks
            /\ UNCHANGED <<state, refVars>>
     ELSE /\ StopUnload(StopAndUnloadTask, tasks)
          /\ lastWrites' = {}
          /\ UNCHANGED progress
  /\ UNCHANGED <<chapters, books, book_history, listening_sessions, envVars, listened, unplayed>>

\* stopAndUnload resumes after updateProgress
stopAndUnloadSaved(t) ==
  /\ UNCHANGED calls
  /\ t \in tasks
  /\ t.pc = "su_saved"
  /\ StopUnload(t, tasks \ {t})
  /\ lastWrites' = {}
  /\ UNCHANGED <<storeVars, envVars, listened, unplayed>>

\* stopAndUnload resumes after unloadAsync
stopAndUnloadUnloaded(t) ==
  /\ UNCHANGED calls
  /\ t \in tasks
  /\ t.pc = "su_unload"
  /\ units' = RemoveUnit(units, t.unl)
  /\ soundRef' = NoUnit
  /\ StopReset
  /\ tasks' = tasks \ {t}
  /\ lastWrites' = {}
  /\ UNCHANGED <<storeVars, isTransitioningRef, nextUnit, now, period, dbFails, loadFails, listened, unplayed>>

\* ------------------------------------------------------------------ seekTo
ClampSeek(x, d) == Max(0, Min(d, x))

\* The position seekTo persists: the argument as given
SeekSaved(x, d) == x

\* Outcomes of sound.setPositionAsync(x): a unit that is not loaded rejects;
\* a target outside the file is rejected or clamped by the unit.
SeekOutcomes(u, x) ==
  IF u \notin DOMAIN units THEN {FALSE}
  ELSE IF x < 0 \/ x > Duration(units[u].ch) THEN {TRUE, FALSE}
  ELSE {TRUE}

\* seekTo(x) up to the await of setPositionAsync
seekToBody(x) ==
  /\ UserCall
  /\ HasRoom
  /\ IF soundRef = NoUnit \/ state.book = NoBook
     THEN /\ UNCHANGED <<units, tasks>>
     ELSE \E ok \in SeekOutcomes(soundRef, x) :
            /\ units' = IF ok
                        THEN [units EXCEPT ![soundRef] =
                                [@ EXCEPT !.pos = ClampSeek(x, Duration(units[soundRef].ch)),
                                          !.finished = FALSE]]
                        ELSE units
            /\ tasks' = tasks \cup
                 {[tid |-> FreeTid, op |-> "seekTo", pc |-> "sk_setPosition",
                   book |-> state.book, ok |-> ok,
                   hasChapter |-> HasIndex(state.chapters, state.currentChapterIndex),
                   chapterId |-> IF HasIndex(state.chapters, state.currentChapterIndex)
                                 THEN At(state.chapters, state.currentChapterIndex) ELSE 0,
                   duration |-> IF soundRef \in DOMAIN units
                                THEN Duration(units[soundRef].ch) ELSE 0,
                   positionMs |-> x]}
  /\ lastWrites' = {}
  /\ UNCHANGED <<storeVars, state, refVars, nextUnit, now, period, dbFails, loadFails, listened, unplayed>>

seekTo(x) == seekToBody(x)

\* seekRelative(deltaMs): Math.max(0, Math.min(durationMs, positionMs + deltaMs))
seekRelative(delta) ==
  seekToBody(Max(0, Min(state.durationMs, state.positionMs + delta)))

\* seekTo resumes after setPositionAsync: the immediate save
seekToPositioned(t) ==
  /\ UNCHANGED calls
  /\ t \in tasks
  /\ t.pc = "sk_setPosition"
  /\ tasks' = tasks \ {t}
  /\ IF t.ok /\ t.hasChapter
     THEN \E ok \in WriteOutcomes :
            LET p == SeekSaved(t.positionMs, t.duration) IN
            /\ progress' = IF ok THEN updateProgress(progress, t.book, t.chapterId, p)
                           ELSE progress
            /\ lastWrites' = IF ok THEN {W("progress", <<t.book>>, <<t.chapterId, p>>)}
                             ELSE {}
     ELSE /\ UNCHANGED progress
          /\ lastWrites' = {}
  /\ UNCHANGED <<chapters, books, book_history, listening_sessions, state, refVars, envVars, listened, unplayed>>

\* ------------------------------------------------------------------- Next
Next ==
  \/ \E dt \in {TickMs \div 2, 3 * TickMs} : ClockAdvance(dt)
  \/ \E u \in DOMAIN units : UnitAdvance(u)
  \/ \E u \in DOMAIN units, dur \in 0..2, fin \in BOOLEAN : StatusUpdate(u, dur, fin)
  \/ \E u \in DOMAIN units : StatusError(u)
  \/ play
  \/ pause
  \/ saveProgressCall
  \/ \E t \in tasks : saveProgressResume(t)
  \/ \E b \in BookIds \cup {MissingBook} : loadBookCall(b)
  \/ \E t \in tasks : loadBookSaved(t)
  \/ \E t \in tasks : loadBookUnloaded(t)
  \/ \E t \in tasks : loadBookFetched(t)
  \/ \E t \in tasks : loadBookProgressRead(t)
  \/ \E t \in tasks : loadBookHistorySelected(t)
  \/ \E t \in tasks : loadBookHistoryBook(t)
  \/ \E t \in tasks : loadBookHistoryInserted(t)
  \/ \E t \in tasks : loadChapterAudioUnloaded(t)
  \/ \E t \in tasks : loadChapterAudioCreated(t)
  \/ \E i \in -1..2 : goToChapterCall(i, 0)
  \/ \E t \in tasks : goToChapterTimer(t)
  \/ nextChapter
  \/ previousChapter
  \/ stopAndUnloadCall
  \/ \E t \in tasks : stopAndUnloadSaved(t)
  \/ \E t \in tasks : stopAndUnloadUnloaded(t)
  \/ \E x \in -1..MaxSeek : seekTo(x)
  \/ \E d \in {-1, 1} : seekRelative(d)
  \/ \E t \in tasks : seekToPositioned(t)
  \/ \E r \in Rates : setPlaybackSpeed(r)
  \/ togglePlaybackCall
  \/ \E t \in tasks : togglePlaybackQueried(t)

Spec == Init /\ [][Next]_vars

\* The session alone: loads, chapter changes, unloads and the status stream
SessionNext ==
  \/ ClockAdvance(3 * TickMs)
  \/ \E u \in DOMAIN units : UnitAdvance(u)
  \/ \E u \in DOMAIN units, dur \in 0..2, fin \in BOOLEAN : StatusUpdate(u, dur, fin)
  \/ Overlap /\ play
  \/ Overlap /\ pause
  \/ Overlap /\ \E b \in BookIds \cup {MissingBook} : loadBookCall(b)
  \/ \E t \in tasks : loadBookSaved(t)
  \/ \E t \in tasks : loadBookUnloaded(t)
  \/ \E t \in tasks : loadBookFetched(t)
  \/ \E t \in tasks : loadBookProgressRead(t)
  \/ \E t \in tasks : loadBookHistorySelected(t)
  \/ \E t \in tasks : loadBookHistoryBook(t)
  \/ \E t \in tasks : loadBookHistoryInserted(t)
  \/ \E t \in tasks : loadChapterAudioUnloaded(t)
  \/ \E t \in tasks : loadChapterAudioCreated(t)
  \/ Overlap /\ \E i \in -1..2 : goToChapterCall(i, 0)
  \/ \E t \in tasks : goToChapterTimer(t)
  \/ Overlap /\ nextChapter
  \/ Overlap /\ previousChapter
  \/ Overlap /\ stopAndUnloadCall
  \/ \E t \in tasks : stopAndUnloadSaved(t)
  \/ \E t \in tasks : stopAndUnloadUnloaded(t)

SpecSession == Init /\ [][SessionNext]_vars

\* ------------------------------------------------------ the reconciler alone
\* Book 1 is loaded and its second chapter is playing at position 1 (the
\* state after loadBook(1), nextChapter, play, one position of playback and
\* one status); the save timer fires with a fixed period from here on.
InitTick ==
  /\ books = [b \in BookIds |-> [total_duration_ms |-> 0, folder_path |-> b]]
  /\ chapters = ChapterTable(BookIds)
  /\ progress = updateProgress([b \in {} |-> 0], 1, 11, 0)
  /\ book_history = <<HistoryRow(1, 0)>>
  /\ listening_sessions = <<>>
  /\ state = [initialState EXCEPT !.book = 1, !.chapters = ChaptersOf(1),
                                  !.currentChapterIndex = 1, !.isPlaying = TRUE,
                                  !.positionMs = 1, !.durationMs = 2]
  /\ soundRef = 2
  /\ chapterDurationsRef = [c \in {12} |-> 2]
  /\ isTransitioningRef = FALSE
  /\ bookHistoryRef = 1
  /\ accumulatedListeningMsRef = 0
  /\ lastProgressTimestampRef = NoTime
  /\ units = [u \in {2} |-> [ch |-> 12, pos |-> 1, playing |-> TRUE, finished |-> FALSE,
                          rate |-> 10]]
  /\ nextUnit = 3
  /\ tasks = {}
  /\ calls = 3
  /\ now = 0
  /\ period \in {TickMs \div 2, TickMs, (3 * TickMs) \div 2, 3 * TickMs}
  /\ dbFails = FALSE
  /\ loadFails = FALSE
  /\ lastWrites = {}
  /\ listened = 0
  /\ unplayed = FALSE

TickNext ==
  \/ saveProgressPeriodic
  \/ \E t \in tasks : saveProgressResume(t)
  \/ \E u \in DOMAIN units, dur \in 0..2, fin \in BOOLEAN : StatusUpdate(u, dur, fin)

SpecTick == InitTick /\ [][TickNext]_vars

\* ------------------------------------------------- one call at a time
\* A resume point a Progress row can hold: a chapter of the book and a
\* position inside that chapter.
ResumePoints(b) ==
  UNION {{[current_chapter_id |-> ChaptersOf(b)[i], position_ms |-> p] :
            p \in 0..Duration(ChaptersOf(b)[i])} : i \in 1..ChapterCount[b]}

\* The Progress tables earlier runs can have left behind.
ProgressTables ==
  UNION {{f \in [S -> UNION {ResumePoints(b) : b \in S}] :
            \A b \in S : f[b] \in ResumePoints(b)} : S \in SUBSET BookIds}

\* The application starts with a library played in earlier runs.
InitSeq ==
  /\ books = [b \in BookIds |-> [total_duration_ms |-> 0, folder_path |-> b]]
  /\ chapters = ChapterTable(BookIds)
  /\ progress \in ProgressTables
  /\ book_history = <<HistoryRow(1, 0)>>
  /\ listening_sessions = <<>>
  /\ state = initialState
  /\ soundRef = NoUnit
  /\ chapterDurationsRef = EmptyMap
  /\ isTransitioningRef = FALSE
  /\ bookHistoryRef = NoHist
  /\ accumulatedListeningMsRef = 0
  /\ lastProgressTimestampRef = NoTime
  /\ units = [u \in {} |-> 0]
  /\ nextUnit = 1
  /\ tasks = {}
  /\ calls = 0
  /\ now = 0
  /\ period = TickMs
  /\ dbFails = FALSE
  /\ loadFails = FALSE
  /\ lastWrites = {}
  /\ listened = 0
  /\ unplayed = FALSE

Idle == tasks = {}

\* The screens call the session one call at a time (each call is awaited);
\* the audio unit's status stream runs alongside.
SeqNext ==
  \/ \E u \in DOMAIN units : UnitAdvance(u)
  \/ \E u \in DOMAIN units, dur \in 0..2, fin \in BOOLEAN : StatusUpdate(u, dur, fin)
  \/ Idle /\ play
  \/ Idle /\ pause
  \/ Idle /\ \E b \in BookIds : loadBookCall(b)
  \/ \E t \in tasks : loadBookSaved(t)
  \/ \E t \in tasks : loadBookUnloaded(t)
  \/ \E t \in tasks : loadBookFetched(t)
  \/ \E t \in tasks : loadBookProgressRead(t)
  \/ \E t \in tasks : loadBookHistorySelected(t)
  \/ \E t \in tasks : loadBookHistoryBook(t)
  \/ \E t \in tasks : loadBookHistoryInserted(t)
  \/ \E t \in tasks : loadChapterAudioUnloaded(t)
  \/ \E t \in tasks : loadChapterAudioCreated(t)
  \/ \E t \in tasks : goToChapterTimer(t)
  \/ Idle /\ nextChapter
  \/ Idle /\ previousChapter
  \/ Idle /\ stopAndUnloadCall
  \/ \E t \in tasks : stopAndUnloadSaved(t)
  \/ \E t \in tasks : stopAndUnloadUnloaded(t)

SpecSeq == InitSeq /\ [][SeqNext]_vars

\* The same, with the chapter list of the player screen
ChapterNext ==
  \/ SeqNext
  \/ Idle /\ \E i \in -1..2, p \in 0..1 : goToChapterCall(i, p)
  \/ Idle /\ loadBookCall(MissingBook)

SpecChapter == Init /\ [][ChapterNext]_vars

\* The same, with the seek controls of the player screen
SeekNext ==
  \/ SeqNext
  \/ Idle /\ \E x \in -1..MaxSeek : seekTo(x)
  \/ Idle /\ \E d \in {-1, 1} : seekRelative(d)
  \/ \E t \in tasks : seekToPositioned(t)

SpecSeek == InitSeq /\ [][SeekNext]_vars

\* ------------------------------------------------------------- the library
sessionVars == <<state, soundRef, chapterDurationsRef, isTransitioningRef,
                 bookHistoryRef, accumulatedListeningMsRef, lastProgressTimestampRef>>

\* A folder is imported: insertBook makes the books row (and insertChapter the
\* chapters). AUTOINCREMENT gives an id no book_history row can refer to.
importBook(b) ==
  /\ UserCall
  /\ b \in BookIds \ DOMAIN books
  /\ \A i \in DOMAIN book_history : book_history[i].book_id # b
  /\ books' = [x \in DOMAIN books \cup {b} |->
                 IF x = b THEN [total_duration_ms |-> 0, folder_path |-> b] ELSE books[x]]
  /\ chapters' = [c \in DOMAIN chapters \cup DOMAIN ChapterRows(b) |->
                    IF c \in DOMAIN chapters THEN chapters[c] ELSE ChapterRows(b)[c]]
  /\ lastWrites' = {W("books", <<b>>, <<0>>)}
  /\ UNCHANGED <<progress, book_history, listening_sessions, sessionVars,
                 envVars, tasks, listened, unplayed>>

\* The delete action of the library screen: deleteBookFiles, then
\* DELETE FROM books WHERE id = ? (chapters and progress go by ON DELETE
\* CASCADE; book_history.book_id carries no foreign key)
deleteBook(b) ==
  /\ UserCall
  /\ b \in DOMAIN books
  /\ books' = [x \in DOMAIN books \ {b} |-> books[x]]
  /\ chapters' = CascadeChapters(chapters, b)
  /\ progress' = CascadeProgress(progress, b)
  /\ lastWrites' = {W("books.delete", <<b>>, <<>>)}
  /\ UNCHANGED <<book_history, listening_sessions, sessionVars, envVars, tasks, listened, unplayed>>

\* Books with no book_history row
Unrecorded(h, bks) == {b \in DOMAIN bks : \A i \in DOMAIN h : h[i].book_id # b}

\* INSERT OR IGNORE INTO book_history ... SELECT ... FROM books b
\*   WHERE NOT EXISTS (SELECT 1 FROM book_history bh WHERE bh.book_id = b.id)
RECURSIVE Backfill(_, _, _)
Backfill(h, bks, S) ==
  IF S = {} THEN h
  ELSE LET b == CHOOSE x \in S : \A y \in S : x <= y
       IN Backfill(Append(h, HistoryRow(b, bks[b].total_duration_ms)), bks, S \ {b})

\* The application is started again: the process and its audio units are
\* gone, AudioProvider is constructed anew, and the first getDatabase runs
\* initializeDatabase.
restart ==
  /\ UserCall
  /\ book_history' = Backfill(book_history, books, Unrecorded(book_history, books))
  /\ lastWrites' = {W("book_history", <<i>>, <<book_history'[i].book_id>>) :
                      i \in DOMAIN book_history' \ DOMAIN book_history}
  /\ state' = initialState
  /\ soundRef' = NoUnit
  /\ chapterDurationsRef' = EmptyMap
  /\ isTransitioningRef' = FALSE
  /\ bookHistoryRef' = NoHist
  /\ accumulatedListeningMsRef' = 0
  /\ lastProgressTimestampRef' = NoTime
  /\ units' = [u \in {} |-> 0]
  /\ tasks' = {}
  /\ UNCHANGED <<chapters, books, progress, listening_sessions, nextUnit, now, period,
                 dbFails, loadFails, listened, unplayed>>

\* A fresh installation: an empty store
InitLibrary ==
  /\ books = [b \in {} |-> 0]
  /\ chapters = ChapterTable({})
  /\ progress = [b \in {} |-> 0]
  /\ book_history = <<>>
  /\ listening_sessions = <<>>
  /\ state = initialState
  /\ soundRef = NoUnit
  /\ chapterDurationsRef = EmptyMap
  /\ isTransitioningRef = FALSE
  /\ bookHistoryRef = NoHist
  /\ accumulatedListeningMsRef = 0
  /\ lastProgressTimestampRef = NoTime
  /\ units = [u \in {} |-> 0]
  /\ nextUnit = 1
  /\ tasks = {}
  /\ calls = 0
  /\ now = 0
  /\ period = TickMs
  /\ dbFails = FALSE
  /\ loadFails = FALSE
  /\ lastWrites = {}
  /\ listened = 0
  /\ unplayed = FALSE

\* The library screen and the player screen, one call at a time
LibraryNext ==
  \/ Idle /\ \E b \in BookIds : importBook(b)
  \/ Idle /\ \E b \in BookIds : deleteBook(b)
  \/ restart
  \/ Idle /\ \E b \in BookIds : loadBookCall(b)
  \/ \E t \in tasks : loadBookUnloaded(t)
  \/ \E t \in tasks : loadBookFetched(t)
  \/ \E t \in tasks : loadBookProgressRead(t)
  \/ \E t \in tasks : loadBookHistorySelected(t)
  \/ \E t \in tasks : loadBookHistoryBook(t)
  \/ \E t \in tasks : loadBookHistoryInserted(t)
  \/ \E t \in tasks : loadChapterAudioCreated(t)

SpecLibrary == InitLibrary /\ [][LibraryNext]_vars

\* ------------------------------------------------- errors of the audio unit
\* onPlaybackStatusUpdate runs
StatusStep ==
  \/ \E u \in DOMAIN units, dur \in 0..2, fin \in BOOLEAN : StatusUpdate(u, dur, fin)
  \/ \E u \in DOMAIN units : StatusError(u)

\* One call at a time, with ids that resolve to no book and units that fail
EdgeNext ==
  \/ SeqNext
  \/ Idle /\ loadBookCall(MissingBook)
  \/ \E u \in DOMAIN units : StatusError(u)

SpecEdge == Init /\ [][EdgeNext]_vars

\* ------------------------------------------------ loadBook during playback
\* Book 1 is playing its second chapter; the library screen calls loadBook
\* while the save timer and the status stream run.
ReloadNext ==
  \/ TickNext
  \/ \E u \in DOMAIN units : UnitAdvance(u)
  \/ Idle /\ \E b \in BookIds : loadBookCall(b)
  \/ \E t \in tasks : loadBookSaved(t)
  \/ \E t \in tasks : loadBookUnloaded(t)
  \/ \E t \in tasks : loadBookFetched(t)
  \/ \E t \in tasks : loadBookProgressRead(t)
  \/ \E t \in tasks : loadBookHistorySelected(t)
  \/ \E t \in tasks : loadBookHistoryBook(t)
  \/ \E t \in tasks : loadBookHistoryInserted(t)
  \/ \E t \in tasks : loadChapterAudioCreated(t)

SpecReload == InitTick /\ [][ReloadNext]_vars

\* ------------------------------------------------------ a failing store
\* The same screens over a store whose writes can be rejected (disk full,
\* database locked): every write statement either takes effect or rejects.
InitStoreFail ==
  /\ books = [b \in BookIds |-> [total_duration_ms |-> 0, folder_path |-> b]]
  /\ chapters = ChapterTable(BookIds)
  /\ progress = [b \in {} |-> 0]
  /\ book_history = <<HistoryRow(1, 0)>>
  /\ listening_sessions = <<>>
  /\ state = initialState
  /\ soundRef = NoUnit
  /\ chapterDurationsRef = EmptyMap
  /\ isTransitioningRef = FALSE
  /\ bookHistoryRef = NoHist
  /\ accumulatedListeningMsRef = 0
  /\ lastProgressTimestampRef = NoTime
  /\ units = [u \in {} |-> 0]
  /\ nextUnit = 1
  /\ tasks = {}
  /\ calls = 0
  /\ now = 0
  /\ period = TickMs
  /\ dbFails = TRUE
  /\ loadFails = FALSE
  /\ lastWrites = {}
  /\ listened = 0
  /\ unplayed = FALSE

SpecStoreFail == InitStoreFail /\ [][SeqNext]_vars

\* ------------------------------------------- the reconciler, failing store
\* The state of InitTick over a store whose writes can be rejected.
InitTickFail ==
  /\ books = [b \in BookIds |-> [total_duration_ms |-> 0, folder_path |-> b]]
  /\ chapters = ChapterTable(BookIds)
  /\ progress = updateProgress([b \in {} |-> 0], 1, 11, 0)
  /\ book_history = <<HistoryRow(1, 0)>>
  /\ listening_sessions = <<>>
  /\ state = [initialState EXCEPT !.book = 1, !.chapters = ChaptersOf(1),
                                  !.currentChapterIndex = 1, !.isPlaying = TRUE,
                                  !.positionMs = 1, !.durationMs = 2]
  /\ soundRef = 2
  /\ chapterDurationsRef = [c \in {12} |-> 2]
  /\ isTransitioningRef = FALSE
  /\ bookHistoryRef = 1
  /\ accumulatedListeningMsRef = 0
  /\ lastProgressTimestampRef = NoTime
  /\ units = [u \in {2} |-> [ch |-> 12, pos |-> 1, playing |-> TRUE, finished |-> FALSE,
                          rate |-> 10]]
  /\ nextUnit = 3
  /\ tasks = {}
  /\ calls = 3
  /\ now = 0
  /\ period \in {TickMs \div 2, TickMs, (3 * TickMs) \div 2, 3 * TickMs}
  /\ dbFails = TRUE
  /\ loadFails = FALSE
  /\ lastWrites = {}
  /\ listened = 0
  /\ unplayed = FALSE

SpecTickFail == InitTickFail /\ [][TickNext]_vars

\* ------------------------------------------------- a failing audio device
\* Books are opened from the library, one call at a time and without being
\* played, on a device where Audio.Sound.createAsync can reject (file not
\* accessible, codec refused); book 2 was played to position 1 in an earlier
\* run.
InitLoadFail ==
  /\ books = [b \in BookIds |-> [total_duration_ms |-> 0, folder_path |-> b]]
  /\ chapters = ChapterTable(BookIds)
  /\ progress = updateProgress([b \in {} |-> 0], 2, 21, 1)
  /\ book_history = <<HistoryRow(1, 0)>>
  /\ listening_sessions = <<>>
  /\ state = initialState
  /\ soundRef = NoUnit
  /\ chapterDurationsRef = EmptyMap
  /\ isTransitioningRef = FALSE
  /\ bookHistoryRef = NoHist
  /\ accumulatedListeningMsRef = 0
  /\ lastProgressTimestampRef = NoTime
  /\ units = [u \in {} |-> 0]
  /\ nextUnit = 1
  /\ tasks = {}
  /\ calls = 0
  /\ now = 0
  /\ period = TickMs
  /\ dbFails = FALSE
  /\ loadFails = TRUE
  /\ lastWrites = {}
  /\ listened = 0
  /\ unplayed = FALSE

LoadFailNext ==
  \/ \E u \in DOMAIN units, dur \in 0..2, fin \in BOOLEAN : StatusUpdate(u, dur, fin)
  \/ Idle /\ \E b \in BookIds : loadBookCall(b)
  \/ \E t \in tasks : loadBookSaved(t)
  \/ \E t \in tasks : loadBookUnloaded(t)
  \/ \E t \in tasks : loadBookFetched(t)
  \/ \E t \in tasks : loadBookProgressRead(t)
  \/ \E t \in tasks : loadBookHistorySelected(t)
  \/ \E t \in tasks : loadBookHistoryBook(t)
  \/ \E t \in tasks : loadBookHistoryInserted(t)
  \/ \E t \in tasks : loadChapterAudioCreated(t)

SpecLoadFail == InitLoadFail /\ [][LoadFailNext]_vars

\* ------------------------------------------------------- the speed slider
\* Books are opened from the library and the speed slider is moved, one call
\* at a time.
SpeedNext ==
  \/ LoadFailNext
  \/ Idle /\ \E r \in Rates : setPlaybackSpeed(r)

SpecSpeed == InitSeq /\ [][SpeedNext]_vars

\* ---------------------------------------------------------- the store alone
MaxLedger == 4

\* Session dates (days since the epoch) and amounts of listening time
SessionDates == {0, 1}
Amounts == {1, 2}

\* upsertListeningSession(bookHistoryId, additionalMs) is called on the day
\* `day`; the foreign key wants an existing book_history row.
upsertListeningSessionCall(id, ms, day) ==
  /\ UNCHANGED calls
  /\ id \in DOMAIN book_history
  /\ getTotalListeningTime + ms <= MaxLedger
  /\ listening_sessions' = upsertListeningSession(listening_sessions, id, ms, day)
  /\ lastWrites' = {W("listening_sessions", <<id, day>>, <<ms>>)}
  /\ UNCHANGED <<chapters, books, progress, book_history, sessionVars, envVars, tasks, listened, unplayed>>

\* Library management, restarts and ledger writes on a fresh installation
StoreNext ==
  \/ \E b \in BookIds : importBook(b)
  \/ \E b \in BookIds : deleteBook(b)
  \/ restart
  \/ \E id \in 1..Cardinality(BookIds), ms \in Amounts, day \in SessionDates :
       upsertListeningSessionCall(id, ms, day)

SpecStore == InitLibrary /\ [][StoreNext]_vars

\* --------------------------------------------- the library during playback
\* Books are deleted from (and imported into) the library while the session
\* holds a book, one call at a time.
ShelfNext ==
  \/ SeqNext
  \/ Idle /\ \E b \in BookIds : deleteBook(b)
  \/ Idle /\ \E b \in BookIds : importBook(b)

SpecShelf == Init /\ [][ShelfNext]_vars

\* ------------------------------------------------------ the play controls
\* One call at a time, except the play button: play, pause and
\* togglePlayback may be called again while a togglePlayback is in flight
ToggleNext ==
  \/ SeqNext
  \/ (\A t \in tasks : t.op = "togglePlayback") /\ play
  \/ (\A t \in tasks : t.op = "togglePlayback") /\ pause
  \/ (\A t \in tasks : t.op = "togglePlayback") /\ togglePlaybackCall
  \/ \E t \in tasks : togglePlaybackQueried(t)

SpecToggle == Init /\ [][ToggleNext]_vars

\* ---------------------------------------------------- stored resume points
\* The rows the progress table admits: current_chapter_id refers to any row
\* of chapters or is NULL (0) after ON DELETE SET NULL.
StoredRows ==
  [current_chapter_id : AllChapterIds \cup {0}, position_ms : 0..2]

StoredTables ==
  UNION {[S -> StoredRows] : S \in SUBSET BookIds}

\* The application starts on a store whose progress table holds such rows.
InitResume ==
  /\ books = [b \in BookIds |-> [total_duration_ms |-> 0, folder_path |-> b]]
  /\ chapters = ChapterTable(BookIds)
  /\ progress \in StoredTables
  /\ book_history = <<HistoryRow(1, 0)>>
  /\ listening_sessions = <<>>
  /\ state = initialState
  /\ soundRef = NoUnit
  /\ chapterDurationsRef = EmptyMap
  /\ isTransitioningRef = FALSE
  /\ bookHistoryRef = NoHist
  /\ accumulatedListeningMsRef = 0
  /\ lastProgressTimestampRef = NoTime
  /\ units = [u \in {} |-> 0]
  /\ nextUnit = 1
  /\ tasks = {}
  /\ calls = 0
  /\ now = 0
  /\ period = TickMs
  /\ dbFails = FALSE
  /\ loadFails = FALSE
  /\ lastWrites = {}
  /\ listened = 0
  /\ unplayed = FALSE

\* Books are opened from the library, one call at a time.
SpecResume == InitResume /\ [][LoadFailNext]_vars

\* ------------------------------------------------- listening and the clock
\* The state after loadBook(1) resumed at the second chapter, play and one
\* status of the playing unit.
InitPlayed ==
  /\ books = [b \in BookIds |-> [total_duration_ms |-> 0, folder_path |-> b]]
  /\ chapters = ChapterTable(BookIds)
  /\ progress = updateProgress([b \in {} |-> 0], 1, 12, 1)
  /\ book_history = <<HistoryRow(1, 0)>>
  /\ listening_sessions = <<>>
  /\ state = [initialState EXCEPT !.book = 1, !.chapters = ChaptersOf(1),
                                  !.currentChapterIndex = 1, !.isPlaying = TRUE,
                                  !.positionMs = 1, !.durationMs = 2]
  /\ soundRef = 1
  /\ chapterDurationsRef = [c \in {12} |-> 2]
  /\ isTransitioningRef = FALSE
  /\ bookHistoryRef = 1
  /\ accumulatedListeningMsRef = 0
  /\ lastProgressTimestampRef = NoTime
  /\ units = [u \in {1} |-> [ch |-> 12, pos |-> 1, playing |-> TRUE, finished |-> FALSE,
                          rate |-> 10]]
  /\ nextUnit = 2
  /\ tasks = {}
  /\ calls = 2
  /\ now = 0
  /\ period = TickMs
  /\ dbFails = FALSE
  /\ loadFails = FALSE
  /\ lastWrites = {}
  /\ listened = 0
  /\ unplayed = FALSE

\* The save timer fires every period; in between the clock moves on, the
\* user pauses and plays, and the unit reports its status.
PlayedNext ==
  \/ saveProgressPeriodic
  \/ saveProgressCall
  \/ \E t \in tasks : saveProgressResume(t)
  \/ ClockAdvance(TickMs \div 2)
  \/ \E u \in DOMAIN units, dur \in 0..2 : StatusUpdate(u, dur, FALSE)
  \/ Idle /\ play
  \/ Idle /\ pause

SpecPlayed == InitPlayed /\ [][PlayedNext]_vars

\* ------------------------------------------------------- scanning folders
\* Folder f holds the audio files 1..ChapterCount[f]; readDirectoryAsync
\* lists them in any order.
Listings(f) ==
  {l \in [1..ChapterCount[f] -> 1..ChapterCount[f]] :
     \A i, j \in 1..ChapterCount[f] : i # j => l[i] # l[j]}

\* contents.filter(isAudioFile).sort(naturalSort)
naturalSort(l) == SortSeq(l, LAMBDA a, b : a < b)

\* The id AUTOINCREMENT gives the next row of books: the id every other part
\* of the model knows the book of folder f by, or a further one
NewBookId(bks, f) == IF f \notin DOMAIN bks THEN f ELSE f + Len(ChapterCount)

\* (mutant of insertBook: folder_path is not UNIQUE)
insertBook_NoUnique(bks, f) ==
  [x \in DOMAIN bks \cup {NewBookId(bks, f)} |->
     IF x \in DOMAIN bks THEN bks[x]
     ELSE [total_duration_ms |-> 0, folder_path |-> f]]

\* INSERT INTO books (..., folder_path) VALUES (...): the table is left as
\* it was when folder_path UNIQUE rejects the row
insertBook(bks, f) ==
  IF \E x \in DOMAIN bks : bks[x].folder_path = f
  THEN bks
  ELSE [x \in DOMAIN bks \cup {NewBookId(bks, f)} |->
          IF x \in DOMAIN bks THEN bks[x]
          ELSE [total_duration_ms |-> 0, folder_path |-> f]]

\* SELECT COUNT(*) FROM books WHERE folder_path = ?
bookExistsAtPath(bks, f) == \E x \in DOMAIN bks : bks[x].folder_path = f

\* importBookFromLocalDirectory(f) up to its await of bookExistsAtPath
importBookFromLocalDirectoryCall(f) ==
  /\ UserCall
  /\ HasRoom
  /\ tasks' = tasks \cup {[tid |-> FreeTid, op |-> "importBook", pc |-> "im_exists",
                           folder |-> f, exists |-> bookExistsAtPath(books, f),
                           files |-> <<>>, bookId |-> NoBook, i |-> 0]}
  /\ lastWrites' = {}
  /\ UNCHANGED <<storeVars, state, refVars, envVars, listened, unplayed>>

\* it resumes with the answer: return, or await readDirectoryAsync
importBookExistsChecked(t) ==
  /\ UNCHANGED calls
  /\ t \in tasks
  /\ t.pc = "im_exists"
  /\ tasks' = IF t.exists THEN tasks \ {t} ELSE Replace(t, [t EXCEPT !.pc = "im_read"])
  /\ lastWrites' = {}
  /\ UNCHANGED <<storeVars, state, refVars, envVars, listened, unplayed>>

\* it resumes with the listing, sorts the audio files and issues insertBook;
\* a rejected insert is caught and ends the import
importBookDirectoryRead(t) ==
  /\ UNCHANGED calls
  /\ t \in tasks
  /\ t.pc = "im_read"
  /\ books' = insertBook(books, t.folder)
  /\ \E l \in Listings(t.folder) :
       tasks' = IF books' = books
                THEN tasks \ {t}
                ELSE Replace(t, [t EXCEPT !.pc = "im_insertBook",
                                          !.files = naturalSort(l),
                                          !.bookId = NewBookId(books, t.folder)])
  /\ lastWrites' = IF books' = books THEN {}
                   ELSE {W("books", <<NewBookId(books, t.folder)>>, <<0>>)}
  /\ UNCHANGED <<chapters, progress, book_history, listening_sessions, state, refVars,
                 envVars, listened, unplayed>>

\* it resumes with the id of the book, or after insertChapter, and awaits
\* the copy of the next file (the loop ends after the last file)
importBookNextFile(t) ==
  /\ UNCHANGED calls
  /\ t \in tasks
  /\ t.pc \in {"im_insertBook", "im_insertChapter"}
  /\ tasks' = IF t.i < Len(t.files)
              THEN Replace(t, [t EXCEPT !.pc = "im_copy"])
              ELSE tasks \ {t}
  /\ lastWrites' = {}
  /\ UNCHANGED <<storeVars, state, refVars, envVars, listened, unplayed>>

\* it resumes after copyFileLocal and issues insertChapter(bookId, ..., i)
importBookFileCopied(t) ==
  /\ UNCHANGED calls
  /\ t \in tasks
  /\ t.pc = "im_copy"
  /\ LET c == 10 * t.bookId + t.files[t.i + 1] IN
     /\ chapters' = [x \in DOMAIN chapters \cup {c} |->
                       IF x = c THEN [book_id |-> t.bookId, position |-> t.i, duration_ms |-> 0]
                       ELSE chapters[x]]
     /\ lastWrites' = {W("chapters", <<c>>, <<t.bookId, t.i>>)}
  /\ tasks' = Replace(t, [t EXCEPT !.pc = "im_insertChapter", !.i = t.i + 1])
  /\ UNCHANGED <<books, progress, book_history, listening_sessions, state, refVars,
                 envVars, listened, unplayed>>

\* The library screen scans its folders when it gains focus and when the
\* application comes to the foreground; a scan can start while another runs.
ImportNext ==
  \/ \E f \in BookIds : importBookFromLocalDirectoryCall(f)
  \/ \E t \in tasks : importBookExistsChecked(t)
  \/ \E t \in tasks : importBookDirectoryRead(t)
  \/ \E t \in tasks : importBookNextFile(t)
  \/ \E t \in tasks : importBookFileCopied(t)

SpecImport == InitLibrary /\ [][ImportNext]_vars

\* ------------------------------------------ saves that overtake each other
\* The save timer runs during playback; while one of its calls awaits the
\* ledger write, the user seeks or opens another book.
OnlySaving == \A t \in tasks : t.op = "saveProgress"

RaceNext ==
  \/ saveProgressPeriodic
  \/ \E t \in tasks : saveProgressResume(t)
  \/ \E u \in DOMAIN units, dur \in 0..2 : StatusUpdate(u, dur, FALSE)
  \/ OnlySaving /\ \E x \in 0..2 : seekTo(x)
  \/ \E t \in tasks : seekToPositioned(t)
  \/ OnlySaving /\ \E b \in BookIds : loadBookCall(b)
  \/ \E t \in tasks : loadBookSaved(t)
  \/ \E t \in tasks : loadBookUnloaded(t)
  \/ \E t \in tasks : loadBookFetched(t)
  \/ \E t \in tasks : loadBookProgressRead(t)
  \/ \E t \in tasks : loadBookHistorySelected(t)
  \/ \E t \in tasks : loadBookHistoryBook(t)
  \/ \E t \in tasks : loadBookHistoryInserted(t)
  \/ \E t \in tasks : loadChapterAudioCreated(t)

SpecRace == InitPlayed /\ [][RaceNext]_vars

\* ---------------------------------------------------------------- claims
\* C1: at most one audio unit is live at any time, and every unit created
\* and not yet unloaded is the session's current unit (soundRef).
C1_OneLiveUnit == DOMAIN units \subseteq {soundRef}

\* C7: N consecutive ticks that each see the session playing, a period
\* dt < 10 s apart, add exactly (N-1)*dt to the listening ledger: with the
\* first tick at time dt, the ledger total after the tick at time N*dt is
\* (N-1)*dt.
C7_NoDoubleCount ==
  (period < ClampMs /\ now >= period)
    => getTotalListeningTime = ((now \div period) - 1) * period

C7_Witness ==
  /\ period = TickMs
  /\ now = 3 * TickMs
  /\ getTotalListeningTime = 2 * TickMs

\* C8: one tick adds at most 10 000 ms to the listening accumulator, whatever
\* the time elapsed since the previous tick.
C8_SuspensionClamp == [][listened' - listened <= ClampMs]_vars

C8_Witness ==
  /\ period > ClampMs
  /\ now = 2 * period
  /\ listened = ClampMs

\* C9: with overlapping ticks no accumulated millisecond reaches the ledger
\* twice: what the ledger holds plus what is still in the accumulator never
\* exceeds what was accumulated.
C9_FlushOnce == getTotalListeningTime + accumulatedListeningMsRef <= listened

C9_Witness ==
  \E t1 \in tasks, t2 \in tasks :
    /\ t1.tid # t2.tid
    /\ t1.op = "saveProgress" /\ t2.op = "saveProgress"
    /\ t1.toFlush > 0 /\ t2.toFlush > 0
    /\ getTotalListeningTime = t1.toFlush + t2.toFlush

\* C2: a loadBook that switches away from book A, whose session stood at
\* chapter c and position P, has written Progress(A) = (c, P) once it is past
\* its save step (no other call in flight), for every P including 0.
C2_FlushOnSwitch ==
  \A t \in tasks :
    (/\ t.op = "loadBook"
     /\ tasks = {t}
     /\ t.prevBook # NoBook
     /\ t.prevBook # t.bookId
     /\ t.prevChapterId # 0)
    => /\ t.prevBook \in DOMAIN progress
       /\ progress[t.prevBook] =
            [current_chapter_id |-> t.prevChapterId, position_ms |-> t.prevPosition]


\* C3: a loadBook of a book whose Progress row holds a valid pair (a chapter
\* of the book, a position within that chapter) puts the session at exactly that chapter index and position and
\* creates the audio unit of that chapter at that position.
C3_RoundTrip ==
  [][\A t \in tasks :
       (/\ t.op = "loadBook"
        /\ t.pc = "lca_create"
        /\ t \notin tasks'
        /\ soundRef' # soundRef
        /\ t.bookId \in DOMAIN progress
        /\ progress[t.bookId] \in ResumePoints(t.bookId))
       => LET row == progress[t.bookId] IN
          /\ state'.book = t.bookId
          /\ state'.currentChapterIndex = FindIndex(ChaptersOf(t.bookId), row.current_chapter_id)
          /\ state'.positionMs = row.position_ms
          /\ units'[soundRef'].ch = row.current_chapter_id
          /\ units'[soundRef'].pos = row.position_ms]_vars

\* C4: when seekTo(x) returns, the Progress row of the loaded book holds the
\* current chapter and x clamped to [0, duration of that chapter].
C4_SeekPersistsClamped ==
  [][\A t \in tasks :
       (t.op = "seekTo" /\ t \notin tasks')
       => /\ t.book \in DOMAIN progress'
          /\ progress'[t.book] =
               [current_chapter_id |-> t.chapterId,
                position_ms |-> ClampSeek(t.positionMs, t.duration)]]_vars


\* C5: every total_duration_ms the status handler writes for a book with N
\* chapters is the sum of the N durations in the discovery map; no write
\* happens while the map holds fewer than N entries.
C5_FinalSumsOnly ==
  \A w \in lastWrites :
    w.tbl = "books"
    => /\ Cardinality(DOMAIN chapterDurationsRef) = ChapterCount[w.key[1]]
       /\ w.val[1] = TotalDuration(chapterDurationsRef)

C5_Witness ==
  /\ W("books", <<1>>, <<Duration(11) + Duration(12)>>) \in lastWrites
  /\ books[1].total_duration_ms = Duration(11) + Duration(12)

\* The discovery map holds an entry for every chapter of the loaded book.
Full == state.book # NoBook /\ Len(state.chapters) > 0
        /\ Cardinality(DOMAIN chapterDurationsRef) = Len(state.chapters)

TotalWritten(ws) ==
  \E w \in ws : w.tbl = "books" \/ w.tbl = "book_history.total"

\* C6: duration discovery is one-shot: the step that completes the discovery
\* map writes the book's total, and while the map is complete no step writes
\* total_duration_ms (or its BookHistory mirror) again.
C6_OneShot ==
  [][/\ Full => ~TotalWritten(lastWrites')
     /\ (Full' /\ chapterDurationsRef' # chapterDurationsRef)
          => W("books", <<state.book>>, <<TotalDuration(chapterDurationsRef')>>)
               \in lastWrites']_vars

\* A later status (duration known, last chapter just finished) arrived with
\* the map complete and the total written, and wrote no total.
C6_Witness ==
  /\ Full
  /\ state.durationMs > 0
  /\ books[state.book].total_duration_ms = TotalDuration(chapterDurationsRef)
  /\ bookHistoryRef # NoHist
  /\ lastWrites = {W("book_history.completed", <<bookHistoryRef>>, <<now>>)}

\* C10: the finish of the last chapter sets completed_at when it is null, a
\* later finish leaves it unchanged, and no step changes a non-null
\* completed_at.
C10_CompletionOnce ==
  [][/\ \A i \in DOMAIN book_history :
          book_history[i].completed_at # NoTime
          => /\ i \in DOMAIN book_history'
             /\ book_history'[i].completed_at = book_history[i].completed_at
     /\ \A w \in lastWrites' :
          w.tbl = "book_history.completed"
          => LET h == w.key[1] IN
             /\ book_history'[h].completed_at # NoTime
             /\ book_history[h].completed_at = NoTime
                  => book_history'[h].completed_at = now]_vars

\* The finish event was replayed at a later time and completed_at kept the
\* time of the first finish.
C10_Witness ==
  \E h \in DOMAIN book_history :
    /\ book_history[h].completed_at # NoTime
    /\ book_history[h].completed_at < now
    /\ W("book_history.completed", <<h>>, <<now>>) \in lastWrites

\* C11: the delete action of the library screen sets is_in_library to false
\* and book_id to null in the deleted book's book_history row, and leaves the
\* row's started_at and completed_at and every listening_sessions row as
\* they were.
C11_DeleteDetachesHistory ==
  [][\A b \in DOMAIN books \ DOMAIN books' :
       /\ Len(book_history') = Len(book_history)
       /\ listening_sessions' = listening_sessions
       /\ \A i \in DOMAIN book_history :
            book_history[i].book_id = b
            => /\ book_history'[i].is_in_library = 0
               /\ book_history'[i].book_id = NoBook
               /\ book_history'[i].started_at = book_history[i].started_at
               /\ book_history'[i].completed_at = book_history[i].completed_at]_vars

\* C13: a book_history row is created on first playback only: every row that
\* appears is inserted for a book that a loadBook in flight is loading
\* (import and the start of the application insert none).
C13_LazyHistory ==
  [][\A i \in DOMAIN book_history' \ DOMAIN book_history :
       \E t \in tasks : t.op = "loadBook" /\ t.bookId = book_history'[i].book_id]_vars

\* C12: no live book ever has more than one book_history row, whatever the
\* interleaving of the getOrCreateBookHistory calls of overlapping loadBook
\* calls, and the book the session has loaded has one.
C12_OneHistoryPerBook ==
  \A b \in DOMAIN books :
    LET rows == {i \in DOMAIN book_history : book_history[i].book_id = b} IN
    /\ Cardinality(rows) <= 1
    /\ state.book = b => rows # {}

\* C14: the transition guard is set for as long as a loadBook, a goToChapter
\* or a stopAndUnload is running (from its first statement to its return).
C14_GuardCoversOperations ==
  \A t \in tasks :
    (t.op \in {"loadBook", "goToChapter", "stopAndUnload"} /\ t.pc # "timer")
    => isTransitioningRef

\* C15: while the transition guard is set a status callback changes nothing:
\* the session state (position, duration, playing flag, error, chapter), the
\* discovery map and the store stay as they were, whatever the status says.
C15_GuardDiscardsStatus ==
  [][(isTransitioningRef /\ StatusStep)
       => UNCHANGED <<state, chapterDurationsRef, storeVars>>]_vars

\* C17: when loadBook returns because its id resolves to no book, the session
\* shows the error, has no audio unit, is neither playing nor loading, and
\* the transition guard is clear.
C17_NotFoundLeavesEmpty ==
  [][\A t \in tasks :
       (t.op = "loadBook" /\ t.pc = "lb_getBook" /\ ~t.found /\ t \notin tasks')
       => /\ state'.error = "not_found"
          /\ soundRef' = NoUnit
          /\ ~state'.isPlaying
          /\ ~state'.isLoading
          /\ ~isTransitioningRef']_vars

\* C16: loadBook(b) called while b is the session's book and a unit is loaded
\* does nothing: no store write, the unit is neither unloaded nor recreated,
\* the discovery map, the accumulators, the guard, the position and the
\* playing flag stay as they are, and no task is started.
C16_ReloadIsNoOp ==
  [][\A b \in BookIds :
       (state.book = b /\ soundRef # NoUnit /\ loadBookCall(b))
       => /\ UNCHANGED <<storeVars, state, refVars, units, nextUnit, tasks>>
          /\ lastWrites' = {}]_vars

\* loadBook(1) has been called on the playing book 1 (the only call since the
\* start of this run) and the session still plays the same unit
C16_Witness ==
  /\ calls = 4
  /\ state.book = 1
  /\ state.isPlaying
  /\ soundRef = 2
  /\ 2 \in DOMAIN units
  /\ units[2].playing
  /\ nextUnit = 3
  /\ chapterDurationsRef = [c \in {12} |-> 2]
  /\ ~isTransitioningRef

\* C18: a failing store write never aborts the operation that issued it: a
\* call of stopAndUnload goes on to its remaining steps whatever the outcome
\* of its save, so right after the call either stopAndUnload is still under
\* way (awaiting the save or the unload) or the session has been reset to
\* empty.
C18_WriteFailureSwallowed ==
  [][stopAndUnloadCall
       => \/ \E t \in tasks' : t.op = "stopAndUnload"
          \/ /\ state' = initialState
             /\ soundRef' = NoUnit]_vars

\* C19: listening time whose ledger write failed is not dropped: every
\* accumulated millisecond is either in the ledger or still in the
\* accumulator, to be written by a later tick.
C19_FailedFlushRetried == getTotalListeningTime + accumulatedListeningMsRef >= listened

\* C20: a failed load of the audio unit is recoverable. A loadBook(b) whose
\* createAsync rejects ends with the error shown, no unit and the loading
\* flag off; a loadBook called in that state (the same book included) is not
\* a no-op but starts a load; and a loadBook whose unit loads ends with its
\* book in the session, the unit in soundRef and the error cleared.
C20_LoadFailureRecoverable ==
  [][/\ \A t \in tasks \ tasks' :
          (t.op = "loadBook" /\ t.pc = "lca_create")
          => /\ state'.book = t.bookId
             /\ ~state'.isLoading
             /\ IF nextUnit' = nextUnit
                THEN /\ state'.error = "load_failed"
                     /\ soundRef' = NoUnit
                ELSE /\ state'.error = "none"
                     /\ soundRef' = nextUnit
                     /\ soundRef' \in DOMAIN units'
                     /\ units'[soundRef'].ch \in {ChaptersOf(t.bookId)[i] :
                                                    i \in 1..ChapterCount[t.bookId]}
     /\ \A b \in BookIds :
          (state.error = "load_failed" /\ soundRef = NoUnit /\ loadBookCall(b))
          => /\ isTransitioningRef'
             /\ \E t \in tasks' \ tasks : t.op = "loadBook" /\ t.bookId = b]_vars

\* loadBook(1) ran to its end without a unit (its initial Progress row is
\* written, yet the only unit ever created plays book 2), and the loadBook(2)
\* that followed ended with book 2 ready and no error
C20_Witness ==
  /\ calls = 2
  /\ tasks = {}
  /\ 1 \in DOMAIN progress
  /\ nextUnit = 2
  /\ state.book = 2
  /\ soundRef = 1
  /\ 1 \in DOMAIN units
  /\ units[1].ch = 21
  /\ state.error = "none"
  /\ ~state.isLoading

\* C21: after setPlaybackSpeed(r) on a loaded unit, whether the unit took the
\* rate or rejected it, the visible playbackSpeed is the rate the unit is
\* using, and the error field is as it was.
C21_RateReverted ==
  [][\A r \in Rates :
       (soundRef \in DOMAIN units /\ setPlaybackSpeed(r))
       => /\ state'.playbackSpeed = units'[soundRef].rate
          /\ state'.error = state.error]_vars

\* C22: when stopAndUnload returns, the session is empty: the state is the
\* initial state (no book, no chapters, not playing, position 0), soundRef is
\* null and the unit it held is unloaded, the discovery map is empty, the
\* accumulator is 0, the last-tick timestamp and the history reference are
\* cleared. A stopAndUnload called with a book at a positive position writes
\* that book's Progress row with the chapter and position of the session at
\* the call, and the row stays as written until stopAndUnload returns.
StopReturns ==
  \/ \E t \in tasks :
       /\ t.op = "stopAndUnload"
       /\ \A t2 \in tasks' : t2.tid = t.tid => t2.op # "stopAndUnload"
  \/ stopAndUnloadCall /\ ~NeedsFlush(state) /\ soundRef = NoUnit

C22_StopLeavesEmpty ==
  [][/\ StopReturns
          => /\ state' = initialState
             /\ soundRef' = NoUnit
             /\ soundRef \notin DOMAIN units'
             /\ chapterDurationsRef' = EmptyMap
             /\ accumulatedListeningMsRef' = 0
             /\ lastProgressTimestampRef' = NoTime
             /\ bookHistoryRef' = NoHist
     /\ (stopAndUnloadCall /\ NeedsFlush(state))
          => /\ state.book \in DOMAIN progress'
             /\ progress'[state.book] =
                  [current_chapter_id |-> At(state.chapters, state.currentChapterIndex),
                   position_ms |-> state.positionMs]
     /\ (\E t \in tasks : t.op = "stopAndUnload") => progress' = progress]_vars

\* C23: the ledger increments and never duplicates: there is at most one
\* listening_sessions row per (book_history_id, session_date), and every
\* upsertListeningSession(h, ms) on day d leaves exactly one row for (h, d)
\* whose duration_ms is what the ledger held for (h, d) before plus ms (so
\* the row holds the sum of all amounts passed), other rows unchanged.
LedgerRows(ls, id, day) ==
  {i \in DOMAIN ls : ls[i].book_history_id = id /\ ls[i].session_date = day}

LedgerAmount(ls, id, day) ==
  SumOver([i \in DOMAIN ls |-> ls[i].duration_ms], LedgerRows(ls, id, day))

C26_DiscoveryUncorrupted ==
  \A c \in DOMAIN chapterDurationsRef : chapterDurationsRef[c] = Duration(c)

\* C27: every Progress row the session writes pairs a chapter with a position
\* inside that chapter's own file: a resume point of the book.
C27_ProgressPairsChapter ==
  \A w \in lastWrites :
    w.tbl = "progress"
    => [current_chapter_id |-> w.val[1], position_ms |-> w.val[2]] \in ResumePoints(w.key[1])

\* C28: when the timer set by a finish status runs and the next chapter
\* exists, the session moves to that chapter at offset 0 and the unit it
\* asks for is to start playing.
C28_AutoAdvancePlays ==
  [][\A t \in tasks :
       t.pc = "timer" /\ goToChapterTimer(t) /\ HasIndex(state.chapters, t.chapterIndex)
       => /\ state'.currentChapterIndex = t.chapterIndex
          /\ state'.positionMs = 0
          /\ \E n \in tasks' : /\ n.tid = t.tid
                               /\ n.initialPosition = 0
                               /\ n.shouldAutoPlay]_vars

\* C29: goToChapter with a valid index asks for the requested chapter at the
\* given offset, to play exactly if the session was playing at the call, and
\* the unit loadChapterAudio then creates for it is that unit.
C29_IntentPreserved ==
  [][/\ \A i \in -1..2, p \in 0..1 :
          goToChapterCall(i, p) /\ HasIndex(state.chapters, i)
          => \E n \in tasks' \ tasks : /\ n.op = "goToChapter"
                                       /\ n.chapter = At(state.chapters, i)
                                       /\ n.initialPosition = p
                                       /\ n.shouldAutoPlay = state.isPlaying
     /\ \A t \in tasks :
          /\ t.op = "goToChapter"
          /\ loadChapterAudioCreated(t)
          /\ nextUnit' # nextUnit
          /\ t.initialPosition <= Duration(t.chapter)
          => /\ units'[soundRef'].ch = t.chapter
             /\ units'[soundRef'].pos = t.initialPosition
             /\ units'[soundRef'].playing = t.shouldAutoPlay]_vars

\* a playing session has been sent to an offset inside another chapter and
\* the old unit is gone: the new unit is about to be created
C29_Witness ==
  \E t \in tasks : /\ t.op = "goToChapter"
                   /\ t.pc = "lca_create"
                   /\ t.shouldAutoPlay
                   /\ t.initialPosition = 1
                   /\ calls >= 3

\* C30: currentChapterIndex is always an index of the chapter list of the
\* session (0 while the list is empty), and goToChapter with an index outside
\* the list, nextChapter at the last chapter and previousChapter at the first
\* chapter change neither the session state nor the audio unit.
C30_IndexInRange ==
  /\ [](IF Len(state.chapters) = 0
        THEN state.currentChapterIndex = 0
        ELSE HasIndex(state.chapters, state.currentChapterIndex))
  /\ [][/\ \A i \in -1..2, p \in 0..1 :
             goToChapterCall(i, p) /\ ~HasIndex(state.chapters, i)
             => UNCHANGED <<state, soundRef, units, tasks>>
        /\ nextChapter /\ state.currentChapterIndex = Len(state.chapters) - 1
           => UNCHANGED <<state, soundRef, units, tasks>>
        /\ previousChapter /\ state.currentChapterIndex = 0
           => UNCHANGED <<state, soundRef, units, tasks>>]_vars

\* a two-chapter book stands at its last chapter, reached by a chapter change
\* (the stored resume point is still its first chapter), and a further call
\* has been made
C30_Witness ==
  /\ state.book = 1
  /\ Len(state.chapters) = 2
  /\ state.currentChapterIndex = 1
  /\ soundRef \in DOMAIN units
  /\ units[soundRef].ch = At(state.chapters, 1)
  /\ tasks = {}
  /\ 1 \in DOMAIN progress
  /\ progress[1].current_chapter_id = 11
  /\ calls >= 3

\* C31: play, pause and togglePlayback change nothing while no audio unit is
\* loaded, togglePlayback inverts what the audio unit itself reports, and
\* none of the three ever puts an error into the session state.
C31_PlayControlsBenign ==
  [][/\ (play \/ pause \/ togglePlaybackCall) /\ soundRef = NoUnit
        => UNCHANGED <<state, units, tasks>>
     /\ (play \/ pause \/ togglePlaybackCall) => state' = state
     /\ \A t \in tasks :
          t.pc = "tp_status" /\ togglePlaybackQueried(t)
          => /\ state' = state
             /\ t.snd \in DOMAIN units
                => units'[t.snd].playing = ~units[t.snd].playing]_vars

\* two togglePlayback calls are in flight on the same unit, whose playing
\* flag differs from the one mirrored in the session state
C31_Witness ==
  /\ \E t1 \in tasks, t2 \in tasks :
       /\ t1 # t2
       /\ t1.op = "togglePlayback" /\ t2.op = "togglePlayback"
       /\ t1.snd = t2.snd
       /\ t1.snd \in DOMAIN units
       /\ units[t1.snd].playing # state.isPlaying
  /\ state.error = "none"

\* C32: a loadBook that read no Progress row for its book, or a row whose
\* chapter is not one of the book's chapters, resumes at chapter index 0 and
\* offset 0, and asks for the unit of the first chapter at offset 0.
C32_ResumeDefault ==
  \A t \in tasks :
    /\ t.op = "loadBook"
    /\ t.pc \in {"lb_histSelect", "lb_histBook", "lb_histInsert", "lca_create"}
    /\ \/ ~t.hasProgress
       \/ \A i \in 1..Len(t.chapters) : t.chapters[i] # t.row.current_chapter_id
    => /\ t.chapterIndex = 0
       /\ t.initialPosition = 0
       /\ t.pc = "lca_create"
          => /\ t.chapter = t.chapters[1]
             /\ state.currentChapterIndex = 0
             /\ state.positionMs = 0

\* a loadBook that read a row with a position but a chapter of another book
\* is about to create its unit
C32_Witness ==
  \E t \in tasks :
    /\ t.op = "loadBook"
    /\ t.pc = "lca_create"
    /\ t.hasProgress
    /\ t.row.position_ms > 0
    /\ t.row.current_chapter_id # 0
    /\ \A i \in 1..Len(t.chapters) : t.chapters[i] # t.row.current_chapter_id

\* C33: the reconciler adds listening time only for an interval throughout
\* which the unit of the session was loaded and playing.
C33_CreditOnlyPlayed ==
  [][listened' > listened
     => /\ ~unplayed
        /\ now' > now => Playing]_vars

\* C34: when loadBook of a book with chapters completes, the book has a
\* Progress row, and the row is the resume point the load resolved: the row
\* stored before if it named one of the book's chapters, the first chapter at
\* offset 0 otherwise; this holds whether or not the unit could be created.
C34_InitialProgressSaved ==
  [][\A t \in tasks :
       t.op = "loadBook" /\ t.pc = "lca_create" /\ loadChapterAudioCreated(t)
       => LET b == t.bookId
              own == /\ b \in DOMAIN progress
                     /\ \E i \in 1..ChapterCount[b] :
                          ChaptersOf(b)[i] = progress[b].current_chapter_id
          IN /\ b \in DOMAIN progress'
             /\ progress'[b] = IF own THEN progress[b]
                               ELSE [current_chapter_id |-> ChaptersOf(b)[1],
                                     position_ms |-> 0]]_vars

\* a loadBook of a book with no stored row has completed with the unit
\* failing to load, and has written the row
C34_Witness ==
  /\ state.book = 1
  /\ state.error = "load_failed"
  /\ soundRef = NoUnit
  /\ tasks = {}
  /\ lastWrites = {W("progress", <<1>>, <<11, 0>>)}
  /\ progress[1] = [current_chapter_id |-> 11, position_ms |-> 0]

\* C35: once the audio unit has reported the duration of a chapter, the
\* chapter's row in the store holds that duration, and the cumulative
\* position of a resume point in a later chapter counts it.
C35_DurationStored ==
  /\ \A c \in DOMAIN chapterDurationsRef \cap DOMAIN chapters :
       chapters[c].duration_ms = chapterDurationsRef[c]
  /\ \A b \in DOMAIN progress :
       LET row == progress[b] IN
       /\ state.book = b
       /\ row.current_chapter_id \in DOMAIN chapters
       /\ chapters[row.current_chapter_id].position > 0
       /\ ChaptersOf(b)[1] \in DOMAIN chapterDurationsRef
       => getProgressWithCumulativePosition(progress, chapters, b)
            = chapterDurationsRef[ChaptersOf(b)[1]] + row.position_ms

C37_AdvanceExactlyOnce ==
  /\ [](\A t1 \in tasks, t2 \in tasks :
          /\ t1.op = "goToChapter" /\ t2.op = "goToChapter"
          /\ t1.pc \in {"lca_unload", "lca_create"}
          /\ t2.pc \in {"lca_unload", "lca_create"}
          => t1 = t2)
  /\ [][\A u \in DOMAIN units, dur \in 0..2 :
          StatusUpdate(u, dur, TRUE)
          => \A t \in tasks' \ tasks :
               t.chapterIndex = FindIndex(state.chapters, units[u].ch) + 1]_vars

\* C38: whenever no loadBook is in flight the transition guard is down, so
\* status callbacks and save ticks are processed.
C38_GuardReleased ==
  (\A t \in tasks : t.op # "loadBook") => ~isTransitioningRef

\* C39: when the Progress row of the book has been rewritten since a save
\* tick began, the tick's own Progress write, issued after its ledger write,
\* leaves that row as it is.
C39_TickKeepsNewerPoint ==
  [][\A t \in tasks :
       /\ t.op = "saveProgress"
       /\ saveProgressResume(t)
       /\ t.book \in DOMAIN progress
       /\ progress[t.book] # t.rowAtStart
       => progress'[t.book] = progress[t.book]]_vars

====
